---- MODULE Spec2Model ----
(***************************************************************************)
(* Approval-gated calendar synchronisation of one-shot and monthly         *)
(* recurring events (Apps Script triggers onFormSubmit / onApprovalEdit)   *)
(* and the expansion of recurring records into the instance list.          *)
(*                                                                         *)
(* Cell texts are sequences of one-character strings, so that              *)
(* normalisation, substring search and integer parsing are computed.       *)
(* A blank identifier cell is the empty tuple; an identifier is the tuple  *)
(* <<"evt", n>> of the n-th entry the calendar collaborator created.       *)
(***************************************************************************)
EXTENDS Integers, Sequences, FiniteSets, TLC

VARIABLES sheet1, sheet2, config, calendar, instances, last, execs, probe

vars == <<sheet1, sheet2, config, calendar, instances, last, execs, probe>>

(***************************************************************************)
(* Bounds of the model.                                                    *)
(***************************************************************************)
MaxEntries == 2
MaxNotes == 1

(***************************************************************************)
(* Text helpers.                                                           *)
(***************************************************************************)
UpperChars == <<"A","B","C","D","E","F","G","H","I","J","K","L","M",
                "N","O","P","Q","R","S","T","U","V","W","X","Y","Z">>
LowerChars == <<"a","b","c","d","e","f","g","h","i","j","k","l","m",
                "n","o","p","q","r","s","t","u","v","w","x","y","z">>

UpperSet == {UpperChars[i] : i \in 1..Len(UpperChars)}

LowerOf == [c \in UpperSet |-> LowerChars[CHOOSE i \in 1..Len(UpperChars) : UpperChars[i] = c]]

ToLowerChar(c) == IF c \in UpperSet THEN LowerOf[c] ELSE c

ToLowerCase(t) == [i \in 1..Len(t) |-> ToLowerChar(t[i])]

IsSpace(c) == c = " "

RECURSIVE TrimLeft(_)
TrimLeft(t) ==
  IF t /= <<>> /\ IsSpace(Head(t)) THEN TrimLeft(Tail(t)) ELSE t

RECURSIVE TrimRight(_)
TrimRight(t) ==
  IF t /= <<>> /\ IsSpace(t[Len(t)]) THEN TrimRight(SubSeq(t, 1, Len(t) - 1)) ELSE t

Trim(t) == TrimRight(TrimLeft(t))

\* t.indexOf(p) !== -1
Contains(t, p) ==
  \E i \in 1..(Len(t) - Len(p) + 1) : SubSeq(t, i, i + Len(p) - 1) = p

\* String(value).toLowerCase().trim(); a blank cell is the empty text
normalize_(value) == Trim(ToLowerCase(value))

\* String.prototype.split(','): the pieces between commas, in order
RECURSIVE Split(_)
Split(t) ==
  IF \A i \in 1..Len(t) : t[i] /= ","
    THEN <<t>>
    ELSE LET k == CHOOSE i \in 1..Len(t) :
                    t[i] = "," /\ \A j \in 1..(i - 1) : t[j] /= ","
         IN <<SubSeq(t, 1, k - 1)>> \o Split(SubSeq(t, k + 1, Len(t)))

Digits == <<"0","1","2","3","4","5","6","7","8","9">>

IsDigit(c) == \E i \in 1..Len(Digits) : Digits[i] = c

DigitValue(c) == (CHOOSE i \in 1..Len(Digits) : Digits[i] = c) - 1

RECURSIVE DigitRun(_, _)
\* value of the longest run of digits at the head of t, continuing from acc
DigitRun(t, acc) ==
  IF t /= <<>> /\ IsDigit(Head(t))
    THEN DigitRun(Tail(t), acc * 10 + DigitValue(Head(t)))
    ELSE acc

\* parseInt(text, 10): leading blanks skipped, optional sign, then digits.
\* The result is <<n>>, or <<>> for NaN (no digit follows).
parseInt(text) ==
  LET t == TrimLeft(text)
      neg == t /= <<>> /\ Head(t) = "-"
      body == IF t /= <<>> /\ Head(t) \in {"-", "+"} THEN Tail(t) ELSE t
  IN IF body = <<>> \/ ~IsDigit(Head(body))
       THEN <<>>
       ELSE IF neg THEN <<0 - DigitRun(body, 0)>> ELSE <<DigitRun(body, 0)>>

(***************************************************************************)
(* Vocabulary of the sheets.                                               *)
(***************************************************************************)
FR1 == "Form Responses 1"
FR2 == "Form Responses 2"
CFG == "Config"

FIRST_DATA_ROW == 2
APPROVAL_COL == 1
APPROVER_COL == 2
SKIP_MONTHS_COL == 20

Blank == <<>>
NoDate == [y |-> 0, m |-> 0, d |-> 0]
NoTime == 0 - 1

IsDate(d) == d /= NoDate
IsTime(t) == t /= NoTime

TxtSunday == <<"S","u","n","d","a","y">>
TxtMonday == <<"M","o","n","d","a","y">>
TxtTuesday == <<"T","u","e","s","d","a","y">>
TxtWednesday == <<"W","e","d","n","e","s","d","a","y">>
TxtThursday == <<"T","h","u","r","s","d","a","y">>
TxtFriday == <<"F","r","i","d","a","y">>
TxtSaturday == <<"S","a","t","u","r","d","a","y">>

TxtEvery == <<"E","v","e","r","y">>
TxtFirst == <<"F","i","r","s","t">>
TxtSecond == <<"S","e","c","o","n","d">>
TxtThird == <<"T","h","i","r","d">>
TxtFourth == <<"F","o","u","r","t","h">>

WeekdayNames == <<TxtSunday, TxtMonday, TxtTuesday, TxtWednesday,
                  TxtThursday, TxtFriday, TxtSaturday>>
RruleTokens == <<"SU", "MO", "TU", "WE", "TH", "FR", "SA">>
OrdinalNames == <<TxtFirst, TxtSecond, TxtThird, TxtFourth>>

\* null of the lookup helpers
Null == 0 - 1

\* map[text] || null over Sunday..Saturday -> SU..SA ("" stands for null)
dayOfWeekToRruleByday_(dayOfWeekRaw) ==
  LET text == Trim(dayOfWeekRaw)
  IN IF \E i \in 1..7 : WeekdayNames[i] = text
       THEN RruleTokens[CHOOSE i \in 1..7 : WeekdayNames[i] = text]
       ELSE ""

\* variant: the weekday index is looked up without regard to case
dayOfWeekToJsIndex_IgnoringCase(dayOfWeekRaw) ==
  LET text == ToLowerCase(Trim(dayOfWeekRaw))
  IN IF \E i \in 1..7 : ToLowerCase(WeekdayNames[i]) = text
       THEN (CHOOSE i \in 1..7 : ToLowerCase(WeekdayNames[i]) = text) - 1
       ELSE Null

\* Sunday..Saturday -> 0..6, null otherwise
dayOfWeekToJsIndex_(dayOfWeekRaw) ==
  LET text == Trim(dayOfWeekRaw)
  IN IF \E i \in 1..7 : WeekdayNames[i] = text
       THEN (CHOOSE i \in 1..7 : WeekdayNames[i] = text) - 1
       ELSE Null

\* First..Fourth -> 1..4; Every and every other label -> null
repeatPatternToBysetpos_(repeatPatternRaw) ==
  LET text == Trim(repeatPatternRaw)
  IN IF \E i \in 1..4 : OrdinalNames[i] = text
       THEN CHOOSE i \in 1..4 : OrdinalNames[i] = text
       ELSE Null

\* the set of 0-indexed months named by the comma-separated text
parseSkipMonths_(skipMonthsRaw) ==
  IF skipMonthsRaw = <<>>
    THEN {}
    ELSE LET parts == Split(skipMonthsRaw)
             nums == [i \in 1..Len(parts) |-> parseInt(Trim(parts[i]))]
         IN {nums[i][1] - 1 : i \in {j \in 1..Len(parts) :
                nums[j] /= <<>> /\ nums[j][1] >= 1 /\ nums[j][1] <= 12}}

(***************************************************************************)
(* Calendar arithmetic of the local Date object.                           *)
(***************************************************************************)
IsLeapYear(y) == (y % 4 = 0 /\ y % 100 /= 0) \/ y % 400 = 0

DaysInMonth(y, m0) ==
  IF m0 = 1 THEN (IF IsLeapYear(y) THEN 29 ELSE 28)
  ELSE IF m0 \in {3, 5, 8, 10} THEN 30 ELSE 31

LeapsThrough(y) == (y \div 4) - (y \div 100) + (y \div 400)

\* days from 1 January 1970 to 1 January of year y (y >= 1970)
DaysBeforeYear(y) == 365 * (y - 1970) + LeapsThrough(y - 1) - LeapsThrough(1969)

RECURSIVE DaysBeforeMonth(_, _)
DaysBeforeMonth(y, m0) ==
  IF m0 = 0 THEN 0 ELSE DaysBeforeMonth(y, m0 - 1) + DaysInMonth(y, m0 - 1)

\* new Date(y, m0, d).getDay(); 1 January 1970 was a Thursday (4)
GetDay(y, m0, d) == (4 + DaysBeforeYear(y) + DaysBeforeMonth(y, m0) + (d - 1)) % 7

RECURSIVE EveryFrom(_, _, _)
\* while (d.getMonth() === month0) { push; d.setDate(d.getDate() + 7) }
EveryFrom(year, month0, day) ==
  IF day > DaysInMonth(year, month0)
    THEN <<>>
    ELSE <<[y |-> year, m |-> month0, d |-> day]>> \o EveryFrom(year, month0, day + 7)

\* variant: the "Every" walk starts on the first of the month instead of on
\* the first day that has the weekday
computeMonthlyOccurrenceDates_FromFirst(year, month0, jsWeekdayIndex, bysetposOrNull) ==
  LET delta == (jsWeekdayIndex - GetDay(year, month0, 1) + 7) % 7
  IN IF bysetposOrNull = Null
       THEN EveryFrom(year, month0, 1)
       ELSE LET day == 1 + delta + (bysetposOrNull - 1) * 7
            IN IF day <= DaysInMonth(year, month0)
                 THEN <<[y |-> year, m |-> month0, d |-> day]>>
                 ELSE <<>>

\* variant: the nth occurrence is counted from zero, one week late
computeMonthlyOccurrenceDates_WeekLate(year, month0, jsWeekdayIndex, bysetposOrNull) ==
  LET delta == (jsWeekdayIndex - GetDay(year, month0, 1) + 7) % 7
  IN IF bysetposOrNull = Null
       THEN EveryFrom(year, month0, 1 + delta)
       ELSE LET day == 1 + delta + bysetposOrNull * 7
            IN IF day <= DaysInMonth(year, month0)
                 THEN <<[y |-> year, m |-> month0, d |-> day]>>
                 ELSE <<>>

\* Dates of the weekday in the month: all of them for "Every" (null),
\* the nth one for 1..4 when it still lies in the month.
computeMonthlyOccurrenceDates_(year, month0, jsWeekdayIndex, bysetposOrNull) ==
  LET delta == (jsWeekdayIndex - GetDay(year, month0, 1) + 7) % 7
  IN IF bysetposOrNull = Null
       THEN EveryFrom(year, month0, 1 + delta)
       ELSE LET day == 1 + delta + (bysetposOrNull - 1) * 7
            IN IF day <= DaysInMonth(year, month0)
                 THEN <<[y |-> year, m |-> month0, d |-> day]>>
                 ELSE <<>>

RECURSIVE FirstOccurrenceFrom(_, _, _, _)
FirstOccurrenceFrom(m, year, jsWeekdayIndex, bysetposOrNull) ==
  IF m >= 12
    THEN NoDate
    ELSE LET dates == computeMonthlyOccurrenceDates_(year, m, jsWeekdayIndex, bysetposOrNull)
         IN IF Len(dates) > 0
              THEN dates[1]
              ELSE FirstOccurrenceFrom(m + 1, year, jsWeekdayIndex, bysetposOrNull)

RECURSIVE LastOfFirstMonthFrom(_, _, _, _)
LastOfFirstMonthFrom(m, year, jsWeekdayIndex, bysetposOrNull) ==
  IF m >= 12
    THEN NoDate
    ELSE LET dates == computeMonthlyOccurrenceDates_(year, m, jsWeekdayIndex, bysetposOrNull)
         IN IF Len(dates) > 0
              THEN dates[Len(dates)]
              ELSE LastOfFirstMonthFrom(m + 1, year, jsWeekdayIndex, bysetposOrNull)

\* variant: the last date of the first month that has one is returned
computeFirstOccurrenceDateForYear_LastOfMonth(year, jsWeekdayIndex, bysetposOrNull) ==
  LastOfFirstMonthFrom(0, year, jsWeekdayIndex, bysetposOrNull)

\* first occurrence in the year, scanning months 0..11; NoDate stands for null
computeFirstOccurrenceDateForYear_(year, jsWeekdayIndex, bysetposOrNull) ==
  FirstOccurrenceFrom(0, year, jsWeekdayIndex, bysetposOrNull)

NoInstant == [y |-> 0, m |-> 0, d |-> 0, min |-> 0]

\* combineDateAndTime / combineDateWithTime_: null unless both are Dates
combineDateAndTime(date, time) ==
  IF ~IsDate(date) \/ ~IsTime(time)
    THEN NoInstant
    ELSE [y |-> date.y, m |-> date.m, d |-> date.d, min |-> time]

combineDateWithTime_(date, time) ==
  IF ~IsDate(date) \/ ~IsTime(time)
    THEN NoInstant
    ELSE [y |-> date.y, m |-> date.m, d |-> date.d, min |-> time]

\* setMinutes(getMinutes() + delta) on an instant
AddMinutes(instant, delta) == [instant EXCEPT !.min = @ + delta]

(***************************************************************************)
(* Texts of the form answers used by the records of the model.             *)
(***************************************************************************)
TxtPrivateKw == <<"p","r","i","v","a","t","e">>
TxtMembersKw == <<"m","e","m","b","e","r","s">>
TxtGeneralPublicKw == <<"g","e","n","e","r","a","l"," ","p","u","b","l","i","c">>
TxtPublicKw == <<"p","u","b","l","i","c">>

TxtGeneralPublic == <<"G","e","n","e","r","a","l"," ","P","u","b","l","i","c">>
TxtMembersAndFriends == <<"M","e","m","b","e","r","s"," ","a","n","d"," ",
                          "F","r","i","e","n","d","s">>
TxtPrivateEvent == <<"P","r","i","v","a","t","e"," ","E","v","e","n","t">>
TxtStaff == <<"S","t","a","f","f">>
TxtHall == <<"H","a","l","l">>
TxtNone == <<"N","o","n","e">>
Txt30Min == <<"3","0"," ","m","i","n","u","t","e","s">>
Txt1Hour == <<"1"," ","h","o","u","r">>
Txt2Hours == <<"2"," ","h","o","u","r","s">>
TxtSomeday == <<"S","o","m","e","d","a","y">>
TxtSkip37 == <<"3",","," ","7">>
TxtSkipGarbled == <<"1",","," ","1","3",","," ","a","b","c">>

\* minutes of padding before and after the advertised time
getPaddingMinutes_(setupTeardownRaw) ==
  LET text == normalize_(setupTeardownRaw)
  IN IF text = <<>> \/ text = <<"n","o","n","e">> THEN 0
     ELSE IF Contains(text, <<"3","0">>) THEN 30
     ELSE IF Contains(text, <<"1"," ","h","o","u","r">>)
             \/ text = <<"1"," ","h","r">> \/ text = <<"1","h","r">> THEN 60
     ELSE IF Contains(text, <<"2"," ","h","o","u","r">>)
             \/ text = <<"2"," ","h","r">> \/ text = <<"2","h","r">> THEN 120
     ELSE 0

\* variant: the members keyword is looked for before the private keyword
getWebsiteCalendarIdForTargetAudience_MembersFirst(targetAudienceRaw, calendarIds) ==
  LET t == normalize_(targetAudienceRaw)
  IN IF t = <<>> THEN ""
     ELSE IF Contains(t, TxtMembersKw) THEN calendarIds.member
     ELSE IF Contains(t, TxtPrivateKw) THEN ""
     ELSE IF Contains(t, TxtGeneralPublicKw) THEN calendarIds.public
     ELSE IF Contains(t, TxtPublicKw) THEN calendarIds.public
     ELSE ""

\* the website calendar for the audience text; "" stands for null
getWebsiteCalendarIdForTargetAudience_(targetAudienceRaw, calendarIds) ==
  LET t == normalize_(targetAudienceRaw)
  IN IF t = <<>> THEN ""
     ELSE IF Contains(t, TxtPrivateKw) THEN ""
     ELSE IF Contains(t, TxtMembersKw) THEN calendarIds.member
     ELSE IF Contains(t, TxtGeneralPublicKw) THEN calendarIds.public
     ELSE IF Contains(t, TxtPublicKw) THEN calendarIds.public
     ELSE ""

(***************************************************************************)
(* Configuration sheet: B2, C2, D2 (calendar identifiers, "" when blank)   *)
(* and E2 (recurring year, 0 when blank).                                  *)
(***************************************************************************)
MemberCal == "member-cal"
PublicCal == "public-cal"
BuildingCal == "building-cal"

Configs ==
  { [member |-> MemberCal, public |-> PublicCal, building |-> BuildingCal, year |-> 2026],
    [member |-> MemberCal, public |-> PublicCal, building |-> "", year |-> 0] }

\* the year of the script host's clock, used when E2 is blank
ClockYear == 2025

getRecurringYear_(cfg) == IF cfg.year = 0 THEN ClockYear ELSE cfg.year

\* Config!B2:D2 with blank cells as null ("")
getCalendarIds_(cfg) ==
  [member |-> cfg.member, public |-> cfg.public, building |-> cfg.building]

(***************************************************************************)
(* Records.  A row of Form Responses 1 (one-shot) or Form Responses 2      *)
(* (recurring) is the form's answers plus the script-owned columns:        *)
(* approval, approver, the two identifier cells, the note of the approval  *)
(* cell and, for recurring rows, the skip-months cell.                     *)
(***************************************************************************)
ApprovalValues == {"Pending", "Approved", "Rejected"}
ApproverEmail == "approver@uuclv.org"
\* e.user.getEmail(): the editor's address, or "" when it is not available
UserEmails == {ApproverEmail, ""}

JanFifteenth == [y |-> 2026, m |-> 0, d |-> 15]
SixPm == 18 * 60
EightPm == 20 * 60

OneShotForms ==
  { [eventName |-> "Potluck", date |-> JanFifteenth, startTime |-> SixPm, endTime |-> EightPm,
     buildingParts |-> TxtHall, targetAudience |-> TxtGeneralPublic, setupTeardown |-> Txt30Min],
    [eventName |-> "Vespers", date |-> JanFifteenth, startTime |-> SixPm, endTime |-> EightPm,
     buildingParts |-> <<>>, targetAudience |-> TxtMembersAndFriends, setupTeardown |-> TxtNone],
    [eventName |-> "", date |-> JanFifteenth, startTime |-> SixPm, endTime |-> EightPm,
     buildingParts |-> TxtHall, targetAudience |-> TxtGeneralPublic, setupTeardown |-> TxtNone] }

RecurringForms ==
  { [eventName |-> "Choir", repeatPattern |-> TxtSecond, dayOfWeek |-> TxtTuesday,
     startTime |-> SixPm, endTime |-> EightPm, targetAudience |-> TxtGeneralPublic,
     buildingParts |-> TxtHall, setupTeardown |-> Txt1Hour],
    [eventName |-> "Board", repeatPattern |-> TxtEvery, dayOfWeek |-> TxtSunday,
     startTime |-> SixPm, endTime |-> EightPm, targetAudience |-> TxtStaff,
     buildingParts |-> <<>>, setupTeardown |-> TxtNone],
    [eventName |-> "Drumming", repeatPattern |-> TxtFirst, dayOfWeek |-> TxtSomeday,
     startTime |-> SixPm, endTime |-> EightPm, targetAudience |-> TxtMembersAndFriends,
     buildingParts |-> TxtHall, setupTeardown |-> TxtNone] }

SkipTexts == {<<>>, TxtSkip37}

\* the script-owned columns of a row as intake leaves them
IntakeColumns ==
  [approval |-> "Pending", approver |-> "", buildingId |-> Blank, websiteId |-> Blank,
   note |-> <<>>]

NewOneShotRow(form) == form @@ IntakeColumns

NewRecurringRow(form, skipText) == form @@ IntakeColumns @@ [skipMonths |-> skipText]

DataRows == {FIRST_DATA_ROW}

(***************************************************************************)
(* Instance expansion (rebuildRecurringInstances_).                        *)
(***************************************************************************)
RECURSIVE InstanceRowsOfDates(_, _, _)
InstanceRowsOfDates(r, dates, di) ==
  IF di > Len(dates)
    THEN <<>>
    ELSE LET start == combineDateWithTime_(dates[di], r.startTime)
             end == combineDateWithTime_(dates[di], r.endTime)
             rest == InstanceRowsOfDates(r, dates, di + 1)
         IN IF start = NoInstant \/ end = NoInstant
              THEN rest
              ELSE <<[approver |-> r.approver, eventName |-> r.eventName,
                      start |-> start, end |-> end,
                      buildingId |-> r.buildingId,
                      websiteId |-> r.websiteId]>> \o rest

RECURSIVE InstanceRowsOfMonths_NoSkip(_, _, _, _, _, _)
\* variant: the months of the skip set are expanded like the others
InstanceRowsOfMonths_NoSkip(r, year, m, jsWeekdayIndex, bysetpos, skipMonths) ==
  IF m >= 12
    THEN <<>>
    ELSE InstanceRowsOfDates(
           r, computeMonthlyOccurrenceDates_(year, m, jsWeekdayIndex, bysetpos), 1)
         \o InstanceRowsOfMonths_NoSkip(r, year, m + 1, jsWeekdayIndex, bysetpos, skipMonths)

RECURSIVE InstanceRowsOfMonths(_, _, _, _, _, _)
InstanceRowsOfMonths(r, year, m, jsWeekdayIndex, bysetpos, skipMonths) ==
  IF m >= 12
    THEN <<>>
    ELSE LET rest == InstanceRowsOfMonths(r, year, m + 1, jsWeekdayIndex, bysetpos, skipMonths)
         IN IF m \in skipMonths
              THEN rest
              ELSE InstanceRowsOfDates(
                     r, computeMonthlyOccurrenceDates_(year, m, jsWeekdayIndex, bysetpos), 1)
                   \o rest

\* the rows one source row contributes
InstanceRowsOfRecord(r, year) ==
  LET jsWeekdayIndex == dayOfWeekToJsIndex_(r.dayOfWeek)
      skipMonths == parseSkipMonths_(r.skipMonths)
      bysetpos == repeatPatternToBysetpos_(r.repeatPattern)
  IN IF r.approval /= "Approved" THEN <<>>
     ELSE IF jsWeekdayIndex = Null THEN <<>>
     ELSE IF ~IsTime(r.startTime) \/ ~IsTime(r.endTime) THEN <<>>
     ELSE InstanceRowsOfMonths(r, year, 0, jsWeekdayIndex, bysetpos, skipMonths)

RECURSIVE InstanceRowsFrom_LaterRowsFirst(_, _, _)
\* variant: the rows of a later source row are placed before those of an
\* earlier one
InstanceRowsFrom_LaterRowsFirst(rows, row, year) ==
  IF \A q \in DOMAIN rows : q < row
    THEN <<>>
    ELSE InstanceRowsFrom_LaterRowsFirst(rows, row + 1, year)
         \o (IF row \in DOMAIN rows THEN InstanceRowsOfRecord(rows[row], year) ELSE <<>>)

RECURSIVE InstanceRowsFrom(_, _, _)
InstanceRowsFrom(rows, row, year) ==
  IF \A q \in DOMAIN rows : q < row
    THEN <<>>
    ELSE (IF row \in DOMAIN rows THEN InstanceRowsOfRecord(rows[row], year) ELSE <<>>)
         \o InstanceRowsFrom(rows, row + 1, year)

\* the data rows of the rebuilt "Recurring Instances" sheet
rebuildRecurringInstances_(rows, cfg) ==
  InstanceRowsFrom(rows, FIRST_DATA_ROW, getRecurringYear_(cfg))

(***************************************************************************)
(* One trigger invocation works on a context: the sheets, the calendars    *)
(* and a log of what the invocation did (collaborator calls, cell writes,  *)
(* whether an exception left the handler, whether the instance list was    *)
(* rebuilt).                                                               *)
(***************************************************************************)
Context(s1, s2, cfg, cal, inst) ==
  [s1 |-> s1, s2 |-> s2, cfg |-> cfg, cal |-> cal, inst |-> inst,
   calls |-> <<>>, writes |-> {}, notFound |-> {}, threw |-> FALSE, rebuilt |-> FALSE]

\* sheet.getRange(row, column).setValue(value)
SetValue(ctx, sheetName, row, field, value) ==
  LET logged == [ctx EXCEPT !.writes = @ \cup {<<sheetName, row, field>>}]
  IN IF sheetName = FR1 /\ row \in DOMAIN ctx.s1
       THEN [logged EXCEPT !.s1[row][field] = value]
     ELSE IF sheetName = FR2 /\ row \in DOMAIN ctx.s2
       THEN [logged EXCEPT !.s2[row][field] = value]
     ELSE IF sheetName = CFG /\ row = FIRST_DATA_ROW /\ field = "approver"
       \* column B of row 2 of the Config sheet is the Member Calendar ID
       THEN [logged EXCEPT !.cfg.member = value]
     ELSE logged

RowValues(ctx, sheetName, row) ==
  IF sheetName = FR1 THEN ctx.s1[row] ELSE ctx.s2[row]

\* appendNote_ on the approval cell of the row: the message is added after
\* the existing note
appendNote_(ctx, sheetName, row, message) ==
  SetValue(ctx, sheetName, row, "note",
           Append(RowValues(ctx, sheetName, row).note, message))

ErrorMessage == "calendar service error"

NoteBuildingFailed ==
  [text |-> "Could not create Building recurring event series", error |-> ErrorMessage]
NoteWebsiteFailed ==
  [text |-> "Could not create Website recurring event series", error |-> ErrorMessage]
NoteNotRouted ==
  [text |-> "Repeating website series not created: target audience did not map", error |-> ""]
NoteAlreadySet ==
  [text |-> "Repeating website series not created because ID (S) is already set", error |-> ""]

\* outcomes of the calendar collaborator: the entry is created and its id
\* returned, the call raises an error, or (CalendarApp.getCalendarById) the
\* calendar is not found and no call is made
OneShotOutcomes == {"ok", "throw", "nocal"}
SeriesOutcomes == {"ok", "throw"}

NextEntryId(cal) == <<"evt", Cardinality(cal) + 1>>

\* the collaborator creating an entry (createEvent / Calendar.Events.insert)
CreateEntry(ctx, calendarId, sheetName, row, slot, start, end, series) ==
  [ctx EXCEPT
     !.cal = @ \cup {[id |-> NextEntryId(ctx.cal), cal |-> calendarId,
                      sheet |-> sheetName, row |-> row, slot |-> slot,
                      start |-> start, end |-> end, series |-> series]},
     !.calls = Append(@, [slot |-> slot, cal |-> calendarId, ok |-> TRUE])]

\* the collaborator raising an error: nothing is created
FailedCall(ctx, calendarId, slot) ==
  [ctx EXCEPT !.calls = Append(@, [slot |-> slot, cal |-> calendarId, ok |-> FALSE])]

\* CalendarApp.getCalendarById returned null: the slot is passed over
CalendarNotFound(ctx, slot) == [ctx EXCEPT !.notFound = @ \cup {slot}]

\* variant: any edit whose new value is Approved counts as an approval
IsApprovalEdge_IgnoresOldValue(oldValue, newValue) == newValue = "Approved"

\* newValue === 'Approved' and oldValue !== 'Approved'
IsApprovalEdge(oldValue, newValue) == newValue = "Approved" /\ oldValue /= "Approved"

\* variant: the existing identifier is not consulted
NeedsBuildingEntry_IgnoresExisting(buildingParts, existingId, calendarIds) ==
  normalize_(buildingParts) /= <<>> /\ calendarIds.building /= ""

\* variant: the building parts are tested as typed, blanks included
NeedsBuildingEntry_Untrimmed(buildingParts, existingId, calendarIds) ==
  buildingParts /= <<>> /\ existingId = Blank /\ calendarIds.building /= ""

\* variant: the configured building calendar is not consulted
NeedsBuildingEntry_Unconfigured(buildingParts, existingId, calendarIds) ==
  normalize_(buildingParts) /= <<>> /\ existingId = Blank

\* buildingPartsText && !existingBuildingEventId && calendarIds.building
NeedsBuildingEntry(buildingParts, existingId, calendarIds) ==
  normalize_(buildingParts) /= <<>> /\ existingId = Blank /\ calendarIds.building /= ""

\* variant: the existing identifier is not consulted
NeedsWebsiteEntry_IgnoresExisting(websiteCalendarId, existingId) ==
  websiteCalendarId /= ""

\* websiteCalendarId && !existingWebsiteEventId
NeedsWebsiteEntry(websiteCalendarId, existingId) ==
  websiteCalendarId /= "" /\ existingId = Blank

(***************************************************************************)
(* onApprovalEdit, one-shot rows (Form Responses 1).  rv is the row as     *)
(* read at the start of the invocation (rowValues).  createEvent is not    *)
(* guarded: an error it raises leaves the handler.                         *)
(***************************************************************************)
\* variant: only a shift forward is applied, the start stays where it is
Padded_ForwardOnly(instant, minutes) ==
  IF minutes > 0 THEN AddMinutes(instant, minutes) ELSE instant

\* if (paddingMinutes > 0) setMinutes(getMinutes() -/+ paddingMinutes):
\* minutes is -paddingMinutes for the start and +paddingMinutes for the end
Padded(instant, minutes) ==
  IF minutes /= 0 THEN AddMinutes(instant, minutes) ELSE instant

OneShotBuildingSlot(ctx, e, rv, calendarIds, baseStart, baseEnd, outcome) ==
  IF ~NeedsBuildingEntry(rv.buildingParts, rv.buildingId, calendarIds)
    THEN ctx
    ELSE LET paddingMinutes == getPaddingMinutes_(rv.setupTeardown)
             buildingStart == Padded(baseStart, 0 - paddingMinutes)
             buildingEnd == Padded(baseEnd, paddingMinutes)
         IN IF outcome = "nocal" THEN CalendarNotFound(ctx, "building")
            ELSE IF outcome = "throw"
              THEN [FailedCall(ctx, calendarIds.building, "building") EXCEPT !.threw = TRUE]
            ELSE SetValue(
                   CreateEntry(ctx, calendarIds.building, e.sheet, e.row, "building",
                               buildingStart, buildingEnd, FALSE),
                   e.sheet, e.row, "buildingId", NextEntryId(ctx.cal))

\* variant: the website slot is passed over
OneShotWebsiteSlot_Skipped(ctx, e, rv, calendarIds, baseStart, baseEnd, outcome) == ctx

OneShotWebsiteSlot(ctx, e, rv, calendarIds, baseStart, baseEnd, outcome) ==
  LET websiteCalendarId ==
        getWebsiteCalendarIdForTargetAudience_(rv.targetAudience, calendarIds)
  IN IF ~NeedsWebsiteEntry(websiteCalendarId, rv.websiteId)
       THEN ctx
       ELSE IF outcome = "nocal" THEN CalendarNotFound(ctx, "website")
       ELSE IF outcome = "throw"
         THEN [FailedCall(ctx, websiteCalendarId, "website") EXCEPT !.threw = TRUE]
       ELSE SetValue(
              CreateEntry(ctx, websiteCalendarId, e.sheet, e.row, "website",
                          baseStart, baseEnd, FALSE),
              e.sheet, e.row, "websiteId", NextEntryId(ctx.cal))

\* variant: the title and the base instants are not tested
OneShotBranch_NoDataGuard(ctx, e, rv, calendarIds, ob, ow) ==
  IF ~IsApprovalEdge(e.oldValue, e.value)
    THEN ctx
    ELSE LET baseStartDateTime == combineDateAndTime(rv.date, rv.startTime)
             baseEndDateTime == combineDateAndTime(rv.date, rv.endTime)
             afterBuilding ==
               OneShotBuildingSlot(ctx, e, rv, calendarIds,
                                   baseStartDateTime, baseEndDateTime, ob)
         IN IF afterBuilding.threw
              THEN afterBuilding
              ELSE OneShotWebsiteSlot(afterBuilding, e, rv, calendarIds,
                                      baseStartDateTime, baseEndDateTime, ow)

OneShotBranch(ctx, e, rv, calendarIds, ob, ow) ==
  IF ~IsApprovalEdge(e.oldValue, e.value)
    THEN ctx
    ELSE LET baseStartDateTime == combineDateAndTime(rv.date, rv.startTime)
             baseEndDateTime == combineDateAndTime(rv.date, rv.endTime)
         IN IF rv.eventName = "" \/ baseStartDateTime = NoInstant \/ baseEndDateTime = NoInstant
              THEN ctx
              ELSE LET afterBuilding ==
                         OneShotBuildingSlot(ctx, e, rv, calendarIds,
                                             baseStartDateTime, baseEndDateTime, ob)
                   IN IF afterBuilding.threw
                        THEN afterBuilding
                        ELSE OneShotWebsiteSlot(afterBuilding, e, rv, calendarIds,
                                                baseStartDateTime, baseEndDateTime, ow)

(***************************************************************************)
(* onApprovalEdit, recurring rows (Form Responses 2).  Each series         *)
(* creation is inside its own try/catch; the catch appends a note.         *)
(***************************************************************************)
Rebuild(ctx) ==
  [ctx EXCEPT !.inst = rebuildRecurringInstances_(ctx.s2, ctx.cfg), !.rebuilt = TRUE]

\* variant: the building series starts at the record's first row of the
\* instance list, i.e. in the first month that is not skipped
RecurringBuildingSlot_FromFirstListed(ctx, e, rv, calendarIds, baseStart, baseEnd, outcome) ==
  IF ~NeedsBuildingEntry(rv.buildingParts, rv.buildingId, calendarIds)
    THEN ctx
    ELSE LET listed == InstanceRowsOfRecord([rv EXCEPT !.approval = "Approved"],
                                            getRecurringYear_(ctx.cfg))
             paddingMinutes == getPaddingMinutes_(rv.setupTeardown)
             buildingStart ==
               Padded(IF listed = <<>> THEN baseStart ELSE listed[1].start,
                      0 - paddingMinutes)
             buildingEnd ==
               Padded(IF listed = <<>> THEN baseEnd ELSE listed[1].end, paddingMinutes)
         IN IF outcome = "throw"
              THEN appendNote_(FailedCall(ctx, calendarIds.building, "building"),
                               e.sheet, e.row, NoteBuildingFailed)
              ELSE SetValue(
                     CreateEntry(ctx, calendarIds.building, e.sheet, e.row, "building",
                                 buildingStart, buildingEnd, TRUE),
                     e.sheet, e.row, "buildingId", NextEntryId(ctx.cal))

RecurringBuildingSlot(ctx, e, rv, calendarIds, baseStart, baseEnd, outcome) ==
  IF ~NeedsBuildingEntry(rv.buildingParts, rv.buildingId, calendarIds)
    THEN ctx
    ELSE LET paddingMinutes == getPaddingMinutes_(rv.setupTeardown)
             buildingStart == Padded(baseStart, 0 - paddingMinutes)
             buildingEnd == Padded(baseEnd, paddingMinutes)
         IN IF outcome = "throw"
              THEN appendNote_(FailedCall(ctx, calendarIds.building, "building"),
                               e.sheet, e.row, NoteBuildingFailed)
              ELSE SetValue(
                     CreateEntry(ctx, calendarIds.building, e.sheet, e.row, "building",
                                 buildingStart, buildingEnd, TRUE),
                     e.sheet, e.row, "buildingId", NextEntryId(ctx.cal))

\* the breadcrumbs left before the website series is attempted
RecurringWebsiteNotes(ctx, e, rv, websiteCalendarId) ==
  IF websiteCalendarId = ""
    THEN LET t == normalize_(rv.targetAudience)
         IN IF t /= <<>> /\ ~Contains(t, TxtPrivateKw)
              THEN appendNote_(ctx, e.sheet, e.row, NoteNotRouted)
              ELSE ctx
    ELSE IF rv.websiteId /= Blank
      THEN appendNote_(ctx, e.sheet, e.row, NoteAlreadySet)
      ELSE ctx

RecurringWebsiteSlot(ctx, e, rv, calendarIds, baseStart, baseEnd, outcome) ==
  LET websiteCalendarId ==
        getWebsiteCalendarIdForTargetAudience_(rv.targetAudience, calendarIds)
      noted == RecurringWebsiteNotes(ctx, e, rv, websiteCalendarId)
  IN IF ~NeedsWebsiteEntry(websiteCalendarId, rv.websiteId)
       THEN noted
       ELSE IF outcome = "throw"
         THEN appendNote_(FailedCall(noted, websiteCalendarId, "website"),
                          e.sheet, e.row, NoteWebsiteFailed)
         ELSE SetValue(
                CreateEntry(noted, websiteCalendarId, e.sheet, e.row, "website",
                            baseStart, baseEnd, TRUE),
                e.sheet, e.row, "websiteId", NextEntryId(noted.cal))

RecurringBranch(ctx, e, rv, calendarIds, ob, ow) ==
  IF e.oldValue = "Approved" /\ e.value /= "Approved"
    THEN Rebuild(ctx)
  ELSE IF ~IsApprovalEdge(e.oldValue, e.value)
    THEN ctx
  ELSE IF rv.eventName = "" \/ ~IsTime(rv.startTime) \/ ~IsTime(rv.endTime)
    THEN ctx
  ELSE
    LET year == getRecurringYear_(ctx.cfg)
        jsWeekdayIndex == dayOfWeekToJsIndex_(rv.dayOfWeek)
        byday == dayOfWeekToRruleByday_(rv.dayOfWeek)
        bysetpos == repeatPatternToBysetpos_(rv.repeatPattern)
    IN IF jsWeekdayIndex = Null \/ byday = ""
         THEN ctx
         ELSE
           LET firstDate == computeFirstOccurrenceDateForYear_(year, jsWeekdayIndex, bysetpos)
               baseStartDateTime == combineDateWithTime_(firstDate, rv.startTime)
               baseEndDateTime == combineDateWithTime_(firstDate, rv.endTime)
           IN IF firstDate = NoDate THEN ctx
              ELSE IF baseStartDateTime = NoInstant \/ baseEndDateTime = NoInstant THEN ctx
              ELSE Rebuild(
                     RecurringWebsiteSlot(
                       RecurringBuildingSlot(ctx, e, rv, calendarIds,
                                             baseStartDateTime, baseEndDateTime, ob),
                       e, rv, calendarIds, baseStartDateTime, baseEndDateTime, ow))

(***************************************************************************)
(* The edit trigger.  e is the edit event: sheet, row, column, new and old *)
(* value of the edited cell and the editor's address.                      *)
(***************************************************************************)
\* variant: the skip-months branch is taken after the approver is written
onApprovalEdit_SkipAfterApprover(ctx, e, ob, ow) ==
  IF e.row < FIRST_DATA_ROW THEN ctx
  ELSE IF e.col /= APPROVAL_COL /\ ~(e.sheet = FR2 /\ e.col = SKIP_MONTHS_COL) THEN ctx
  ELSE
    LET withApprover == IF e.user /= ""
                          THEN SetValue(ctx, e.sheet, e.row, "approver", e.user)
                          ELSE ctx
        calendarIds == getCalendarIds_(withApprover.cfg)
    IN IF e.sheet = FR2 /\ e.col = SKIP_MONTHS_COL
         THEN Rebuild(withApprover)
       ELSE IF e.sheet = FR1
         THEN OneShotBranch(withApprover, e, withApprover.s1[e.row], calendarIds, ob, ow)
       ELSE IF e.sheet = FR2
         THEN RecurringBranch(withApprover, e, withApprover.s2[e.row], calendarIds, ob, ow)
       ELSE withApprover

onApprovalEdit(ctx, e, ob, ow) ==
  IF e.row < FIRST_DATA_ROW THEN ctx
  ELSE IF e.sheet = FR2 /\ e.col = SKIP_MONTHS_COL THEN Rebuild(ctx)
  ELSE IF e.col /= APPROVAL_COL THEN ctx
  ELSE
    LET withApprover == IF e.user /= ""
                          THEN SetValue(ctx, e.sheet, e.row, "approver", e.user)
                          ELSE ctx
        calendarIds == getCalendarIds_(withApprover.cfg)
    IN IF e.sheet = FR1
         THEN OneShotBranch(withApprover, e, withApprover.s1[e.row], calendarIds, ob, ow)
       ELSE IF e.sheet = FR2
         THEN RecurringBranch(withApprover, e, withApprover.s2[e.row], calendarIds, ob, ow)
       ELSE withApprover

(***************************************************************************)
(* The form-submit trigger on the row the form wrote.                      *)
(***************************************************************************)
\* variant: the cell is written when it is blank already
ClearIfSet_WhenBlank(ctx, sheetName, row, field, blank) ==
  IF RowValues(ctx, sheetName, row)[field] = blank
    THEN SetValue(ctx, sheetName, row, field, blank)
    ELSE ctx

ClearIfSet(ctx, sheetName, row, field, blank) ==
  IF RowValues(ctx, sheetName, row)[field] /= blank
    THEN SetValue(ctx, sheetName, row, field, blank)
    ELSE ctx

onFormSubmit(ctx, sheetName, row) ==
  IF row <= 1 THEN ctx
  ELSE IF sheetName \notin {FR1, FR2} THEN ctx
  ELSE
    LET pending == IF RowValues(ctx, sheetName, row).approval = ""
                     THEN SetValue(ctx, sheetName, row, "approval", "Pending")
                     ELSE ctx
        noApprover == ClearIfSet(pending, sheetName, row, "approver", "")
        noBuilding == ClearIfSet(noApprover, sheetName, row, "buildingId", Blank)
    IN ClearIfSet(noBuilding, sheetName, row, "websiteId", Blank)

(***************************************************************************)
(* State machine: each trigger invocation runs to completion in one step.  *)
(* last is the log of the latest invocation.                               *)
(***************************************************************************)
NoEvent == [sheet |-> "", row |-> 0, col |-> 0, value |-> "", oldValue |-> "", user |-> ""]

Idle ==
  [handler |-> "none", e |-> NoEvent, calls |-> <<>>, writes |-> {}, notFound |-> {},
   threw |-> FALSE, rebuilt |-> FALSE]

NoRows == [r \in {} |-> NoEvent]

\* probe holds the argument and the result of a helper function applied on
\* its own; it is idle while the triggers run
NoProbe == [fn |-> "none"]

Init ==
  /\ config \in Configs
  /\ \/ /\ \E form \in OneShotForms : sheet1 = [r \in DataRows |-> NewOneShotRow(form)]
        /\ sheet2 = NoRows
     \/ /\ sheet1 = NoRows
        /\ \E form \in RecurringForms : \E skipText \in SkipTexts :
             sheet2 = [r \in DataRows |-> NewRecurringRow(form, skipText)]
  /\ calendar = {}
  /\ instances = <<>>
  /\ last = Idle
  /\ execs = <<>>
  /\ probe = NoProbe

NotesOf(s1, s2) ==
  {s1[r].note : r \in DOMAIN s1} \cup {s2[r].note : r \in DOMAIN s2}

\* the bounds of the model: entries created and notes appended so far
WithinBounds(ctx) ==
  /\ Cardinality(ctx.cal) <= MaxEntries
  /\ \A n \in NotesOf(ctx.s1, ctx.s2) : Len(n) <= MaxNotes

\* the invocation's effects become the state
Commit(ctx, handler, e) ==
  /\ WithinBounds(ctx)
  /\ sheet1' = ctx.s1
  /\ sheet2' = ctx.s2
  /\ config' = ctx.cfg
  /\ calendar' = ctx.cal
  /\ instances' = ctx.inst
  /\ last' = [handler |-> handler, e |-> [e EXCEPT !.user = ""],
              calls |-> ctx.calls, writes |-> ctx.writes, notFound |-> ctx.notFound,
              threw |-> ctx.threw, rebuilt |-> ctx.rebuilt]
  /\ UNCHANGED <<execs, probe>>

\* the collaborator's possible outcomes matter only to an invocation that
\* can reach a create call
Outcomes(sheetName, e) ==
  IF ~IsApprovalEdge(e.oldValue, e.value) THEN {"ok"}
  ELSE IF sheetName = FR1 THEN OneShotOutcomes ELSE SeriesOutcomes

SheetRows(sheetName) == IF sheetName = FR1 THEN sheet1 ELSE sheet2

\* a re-submission: the form rewrites its answers into the row (the
\* answers of the model stay as they are), then the trigger runs
FormSubmit(sheetName, row) ==
  /\ row \in DOMAIN SheetRows(sheetName)
  /\ Commit(onFormSubmit(Context(sheet1, sheet2, config, calendar, instances),
                         sheetName, row),
            "onFormSubmit", [NoEvent EXCEPT !.sheet = sheetName, !.row = row])

\* an approver sets the approval cell of a row, then the edit trigger runs
ApprovalEdit(sheetName, row, newValue, user) ==
  /\ row \in DOMAIN SheetRows(sheetName)
  /\ LET e == [sheet |-> sheetName, row |-> row, col |-> APPROVAL_COL,
               value |-> newValue, oldValue |-> SheetRows(sheetName)[row].approval,
               user |-> user]
         ctx == Context(IF sheetName = FR1 THEN [sheet1 EXCEPT ![row].approval = newValue]
                                           ELSE sheet1,
                        IF sheetName = FR2 THEN [sheet2 EXCEPT ![row].approval = newValue]
                                           ELSE sheet2,
                        config, calendar, instances)
     IN \E ob, ow \in Outcomes(sheetName, e) :
          Commit(onApprovalEdit(ctx, e, ob, ow), "onApprovalEdit", e)

\* someone edits the skip-months cell of a recurring row
SkipMonthsEdit(row, skipText) ==
  /\ row \in DOMAIN sheet2
  /\ LET e == [sheet |-> FR2, row |-> row, col |-> SKIP_MONTHS_COL,
               value |-> "", oldValue |-> "", user |-> ApproverEmail]
         ctx == Context(sheet1, [sheet2 EXCEPT ![row].skipMonths = skipText],
                        config, calendar, instances)
     IN Commit(onApprovalEdit(ctx, e, "ok", "ok"), "onApprovalEdit", e)

\* edits elsewhere: a header cell, another column of a record, or column A
\* of the Config sheet (the list of approval statuses)
OtherCells ==
  { [sheet |-> FR1, row |-> 1, col |-> APPROVAL_COL],
    [sheet |-> FR2, row |-> FIRST_DATA_ROW, col |-> 5],
    [sheet |-> CFG, row |-> FIRST_DATA_ROW, col |-> APPROVAL_COL] }

OtherEdit(cell, user) ==
  /\ cell.sheet \in {FR1, FR2} /\ cell.row >= FIRST_DATA_ROW
       => cell.row \in DOMAIN SheetRows(cell.sheet)
  /\ LET e == [sheet |-> cell.sheet, row |-> cell.row, col |-> cell.col,
               value |-> "Pending", oldValue |-> "Pending", user |-> user]
     IN Commit(onApprovalEdit(Context(sheet1, sheet2, config, calendar, instances),
                              e, "ok", "ok"),
               "onApprovalEdit", e)

Next ==
  \/ \E sheetName \in {FR1, FR2} : \E row \in DataRows : FormSubmit(sheetName, row)
  \/ \E sheetName \in {FR1, FR2} : \E row \in DataRows :
       \E newValue \in ApprovalValues : \E user \in UserEmails :
         ApprovalEdit(sheetName, row, newValue, user)
  \/ \E row \in DataRows : \E skipText \in SkipTexts : SkipMonthsEdit(row, skipText)
  \/ \E cell \in OtherCells : \E user \in UserEmails : OtherEdit(cell, user)

Spec == Init /\ [][Next]_vars

\* the edit trigger alone: no form is (re-)submitted
NextEdits ==
  \/ \E sheetName \in {FR1, FR2} : \E row \in DataRows :
       \E newValue \in ApprovalValues : \E user \in UserEmails :
         ApprovalEdit(sheetName, row, newValue, user)
  \/ \E row \in DataRows : \E skipText \in SkipTexts : SkipMonthsEdit(row, skipText)
  \/ \E cell \in OtherCells : \E user \in UserEmails : OtherEdit(cell, user)

SpecEdits == Init /\ [][NextEdits]_vars

\* the records of both sheets, as <<sheet name, row>> keys
RecordKeys == ({FR1} \X DOMAIN sheet1) \cup ({FR2} \X DOMAIN sheet2)

RecordAt(key) == IF key[1] = FR1 THEN sheet1[key[2]] ELSE sheet2[key[2]]

(***************************************************************************)
(* Interleaved executions.  The host may start an execution of the edit    *)
(* trigger while an earlier one is still running; the script takes no      *)
(* lock.  An execution reads the row and writes the approver, then for     *)
(* each slot calls the collaborator and, in a later step, stores the       *)
(* identifier it returned; a recurring row is followed by the rebuild.     *)
(* execs is the sequence of executions started so far.                     *)
(***************************************************************************)
MaxExecs == 3

TheRecord == CHOOSE key \in RecordKeys : TRUE

ExecContext == Context(sheet1, sheet2, config, calendar, instances)

CommitExec(ctx, p, exec) ==
  /\ WithinBounds(ctx)
  /\ sheet1' = ctx.s1
  /\ sheet2' = ctx.s2
  /\ config' = ctx.cfg
  /\ calendar' = ctx.cal
  /\ instances' = ctx.inst
  /\ execs' = [execs EXCEPT ![p] = exec]
  /\ UNCHANGED <<last, probe>>

\* an approver sets the approval cell; the host starts an execution
ExecStart(newValue) ==
  /\ Len(execs) < MaxExecs
  /\ LET key == TheRecord
         e == [sheet |-> key[1], row |-> key[2], col |-> APPROVAL_COL,
               value |-> newValue, oldValue |-> RecordAt(key).approval,
               user |-> ApproverEmail]
     IN /\ sheet1' = IF key[1] = FR1 THEN [sheet1 EXCEPT ![key[2]].approval = newValue]
                                     ELSE sheet1
        /\ sheet2' = IF key[1] = FR2 THEN [sheet2 EXCEPT ![key[2]].approval = newValue]
                                     ELSE sheet2
        /\ execs' = Append(execs, [pc |-> "read", e |-> e, rv |-> <<>>, pending |-> Blank,
                                   start |-> NoInstant, end |-> NoInstant])
  /\ UNCHANGED <<config, calendar, instances, last, probe>>

\* the base start and end of the record's entries; NoInstant when the
\* record lacks what synchronisation needs
ExecBaseInstant(sheetName, rv, cfg, time) ==
  IF rv.eventName = "" \/ ~IsTime(rv.startTime) \/ ~IsTime(rv.endTime) THEN NoInstant
  ELSE IF sheetName = FR1 THEN combineDateAndTime(rv.date, time)
  ELSE IF dayOfWeekToJsIndex_(rv.dayOfWeek) = Null \/ dayOfWeekToRruleByday_(rv.dayOfWeek) = ""
    THEN NoInstant
  ELSE combineDateWithTime_(
         computeFirstOccurrenceDateForYear_(getRecurringYear_(cfg),
                                            dayOfWeekToJsIndex_(rv.dayOfWeek),
                                            repeatPatternToBysetpos_(rv.repeatPattern)),
         time)

\* the row is read, the approver written, and the edge and data guards taken
ExecRead(p) ==
  /\ execs[p].pc = "read"
  /\ LET x == execs[p]
         e == x.e
         withApprover == SetValue(ExecContext, e.sheet, e.row, "approver", e.user)
         rv == RowValues(withApprover, e.sheet, e.row)
         start == ExecBaseInstant(e.sheet, rv, config, rv.startTime)
         end == ExecBaseInstant(e.sheet, rv, config, rv.endTime)
         pc == IF e.sheet = FR2 /\ e.oldValue = "Approved" /\ e.value /= "Approved"
                 THEN "rebuild"
               ELSE IF ~IsApprovalEdge(e.oldValue, e.value) THEN "done"
               ELSE IF start = NoInstant \/ end = NoInstant THEN "done"
               ELSE "building"
     IN CommitExec(withApprover, p,
                   [x EXCEPT !.pc = pc, !.rv = rv, !.start = start, !.end = end])

\* the building slot: the guard on the row as read, then the create call
ExecCreateBuilding(p, outcome) ==
  /\ execs[p].pc = "building"
  /\ LET x == execs[p]
         e == x.e
         calendarIds == getCalendarIds_(config)
         paddingMinutes == getPaddingMinutes_(x.rv.setupTeardown)
     IN IF ~NeedsBuildingEntry(x.rv.buildingParts, x.rv.buildingId, calendarIds)
          THEN CommitExec(ExecContext, p, [x EXCEPT !.pc = "website"])
        ELSE IF outcome = "ok"
          THEN CommitExec(CreateEntry(ExecContext, calendarIds.building, e.sheet, e.row,
                                      "building", Padded(x.start, 0 - paddingMinutes),
                                      Padded(x.end, paddingMinutes), e.sheet = FR2),
                          p, [x EXCEPT !.pc = "writeBuilding",
                                       !.pending = NextEntryId(calendar)])
        ELSE IF e.sheet = FR1
          THEN CommitExec(ExecContext, p, [x EXCEPT !.pc = "threw"])
        ELSE CommitExec(appendNote_(ExecContext, e.sheet, e.row, NoteBuildingFailed),
                        p, [x EXCEPT !.pc = "website"])

\* the identifier the collaborator returned is stored in the row
ExecWriteBuilding(p) ==
  /\ execs[p].pc = "writeBuilding"
  /\ LET x == execs[p]
     IN CommitExec(SetValue(ExecContext, x.e.sheet, x.e.row, "buildingId", x.pending),
                   p, [x EXCEPT !.pc = "website", !.pending = Blank])

\* the website slot: notes and guard on the row as read, then the create call
ExecCreateWebsite(p, outcome) ==
  /\ execs[p].pc = "website"
  /\ LET x == execs[p]
         e == x.e
         websiteCalendarId ==
           getWebsiteCalendarIdForTargetAudience_(x.rv.targetAudience, getCalendarIds_(config))
         noted == IF e.sheet = FR2
                    THEN RecurringWebsiteNotes(ExecContext, e, x.rv, websiteCalendarId)
                    ELSE ExecContext
         after == IF e.sheet = FR2 THEN "rebuild" ELSE "done"
     IN IF ~NeedsWebsiteEntry(websiteCalendarId, x.rv.websiteId)
          THEN CommitExec(noted, p, [x EXCEPT !.pc = after])
        ELSE IF outcome = "ok"
          THEN CommitExec(CreateEntry(noted, websiteCalendarId, e.sheet, e.row,
                                      "website", x.start, x.end, e.sheet = FR2),
                          p, [x EXCEPT !.pc = "writeWebsite",
                                       !.pending = NextEntryId(calendar)])
        ELSE IF e.sheet = FR1
          THEN CommitExec(noted, p, [x EXCEPT !.pc = "threw"])
        ELSE CommitExec(appendNote_(noted, e.sheet, e.row, NoteWebsiteFailed),
                        p, [x EXCEPT !.pc = after])

ExecWriteWebsite(p) ==
  /\ execs[p].pc = "writeWebsite"
  /\ LET x == execs[p]
     IN CommitExec(SetValue(ExecContext, x.e.sheet, x.e.row, "websiteId", x.pending),
                   p, [x EXCEPT !.pc = IF x.e.sheet = FR2 THEN "rebuild" ELSE "done",
                                !.pending = Blank])

\* the instance list is rebuilt from the rows as they are now
ExecRebuild(p) ==
  /\ execs[p].pc = "rebuild"
  /\ CommitExec(Rebuild(ExecContext), p, [execs[p] EXCEPT !.pc = "done"])

NextConc ==
  \/ \E newValue \in ApprovalValues : ExecStart(newValue)
  \/ \E p \in DOMAIN execs : ExecRead(p)
  \/ \E p \in DOMAIN execs : \E outcome \in SeriesOutcomes : ExecCreateBuilding(p, outcome)
  \/ \E p \in DOMAIN execs : ExecWriteBuilding(p)
  \/ \E p \in DOMAIN execs : \E outcome \in SeriesOutcomes : ExecCreateWebsite(p, outcome)
  \/ \E p \in DOMAIN execs : ExecWriteWebsite(p)
  \/ \E p \in DOMAIN execs : ExecRebuild(p)

SpecConc == Init /\ [][NextConc]_vars

(***************************************************************************)
(* Revised answers.  Between approvals a sheet editor changes an answer    *)
(* cell of the record (padding, start time, audience, building space);     *)
(* the edit trigger runs for that cell and returns at its column guard.    *)
(***************************************************************************)
SevenPm == 19 * 60

\* the column of an answer in the two record sheets
ColumnOf(sheetName, field) ==
  IF sheetName = FR1
    THEN CASE field = "startTime" -> 8
           [] field = "buildingParts" -> 10
           [] field = "targetAudience" -> 11
           [] field = "setupTeardown" -> 13
    ELSE CASE field = "startTime" -> 9
           [] field = "targetAudience" -> 11
           [] field = "buildingParts" -> 13
           [] field = "setupTeardown" -> 14

\* the answers that are revised, and the value each is revised to
Revisions == {"setupTeardown", "startTime", "targetAudience", "buildingParts"}

RevisedValue(field) ==
  CASE field = "setupTeardown" -> Txt2Hours
    [] field = "startTime" -> SevenPm
    [] field = "targetAudience" -> TxtMembersAndFriends
    [] field = "buildingParts" -> <<>>

AnswerEdit(sheetName, row, field) ==
  /\ row \in DOMAIN SheetRows(sheetName)
  /\ SheetRows(sheetName)[row][field] /= RevisedValue(field)
  /\ LET e == [sheet |-> sheetName, row |-> row, col |-> ColumnOf(sheetName, field),
               value |-> "", oldValue |-> "", user |-> ApproverEmail]
         ctx == Context(IF sheetName = FR1
                          THEN [sheet1 EXCEPT ![row][field] = RevisedValue(field)]
                          ELSE sheet1,
                        IF sheetName = FR2
                          THEN [sheet2 EXCEPT ![row][field] = RevisedValue(field)]
                          ELSE sheet2,
                        config, calendar, instances)
     IN Commit(onApprovalEdit(ctx, e, "ok", "ok"), "onApprovalEdit", e)

\* a one-shot and a recurring record with both destinations, all calendars
\* configured
InitRevise ==
  /\ config \in {c \in Configs : c.building /= ""}
  /\ \/ /\ \E form \in {f \in OneShotForms : f.eventName = "Potluck"} :
             sheet1 = [r \in DataRows |-> NewOneShotRow(form)]
        /\ sheet2 = NoRows
     \/ /\ sheet1 = NoRows
        /\ \E form \in {f \in RecurringForms : f.eventName = "Choir"} :
             sheet2 = [r \in DataRows |-> NewRecurringRow(form, <<>>)]
  /\ calendar = {}
  /\ instances = <<>>
  /\ last = Idle
  /\ execs = <<>>
  /\ probe = NoProbe

NextRevise ==
  \/ \E sheetName \in {FR1, FR2} : \E row \in DataRows :
       \E newValue \in ApprovalValues : \E user \in UserEmails :
         ApprovalEdit(sheetName, row, newValue, user)
  \/ \E sheetName \in {FR1, FR2} : \E row \in DataRows : \E field \in Revisions :
       AnswerEdit(sheetName, row, field)

SpecRevise == InitRevise /\ [][NextRevise]_vars

(***************************************************************************)
(* Routing scenarios: records whose audience is private although it names  *)
(* another audience too, and public records that request no space.         *)
(***************************************************************************)
TxtPrivateForMembers == <<"P","r","i","v","a","t","e"," ","E","v","e","n","t"," ",
                          "f","o","r"," ","M","e","m","b","e","r","s">>
TxtPublicButPrivate == <<"G","e","n","e","r","a","l"," ","P","u","b","l","i","c"," ",
                         "(","P","R","I","V","A","T","E",")">>

RoutingOneShotForms ==
  { f \in OneShotForms : f.eventName = "Potluck" } \cup
  { [eventName |-> "Retreat", date |-> JanFifteenth, startTime |-> SixPm, endTime |-> EightPm,
     buildingParts |-> TxtHall, targetAudience |-> TxtPrivateForMembers,
     setupTeardown |-> TxtNone],
    [eventName |-> "Lecture", date |-> JanFifteenth, startTime |-> SixPm, endTime |-> EightPm,
     buildingParts |-> <<" ">>, targetAudience |-> TxtGeneralPublic,
     setupTeardown |-> Txt30Min] }

RoutingRecurringForms ==
  { [eventName |-> "Circle", repeatPattern |-> TxtFirst, dayOfWeek |-> TxtMonday,
     startTime |-> SixPm, endTime |-> EightPm, targetAudience |-> TxtPublicButPrivate,
     buildingParts |-> TxtHall, setupTeardown |-> TxtNone],
    [eventName |-> "Forum", repeatPattern |-> TxtThird, dayOfWeek |-> TxtFriday,
     startTime |-> SixPm, endTime |-> EightPm, targetAudience |-> TxtGeneralPublic,
     buildingParts |-> <<>>, setupTeardown |-> TxtNone] }

InitRouting ==
  /\ config \in {c \in Configs : c.building /= ""}
  /\ \/ /\ \E form \in RoutingOneShotForms : sheet1 = [r \in DataRows |-> NewOneShotRow(form)]
        /\ sheet2 = NoRows
     \/ /\ sheet1 = NoRows
        /\ \E form \in RoutingRecurringForms :
             sheet2 = [r \in DataRows |-> NewRecurringRow(form, <<>>)]
  /\ calendar = {}
  /\ instances = <<>>
  /\ last = Idle
  /\ execs = <<>>
  /\ probe = NoProbe

SpecRouting == InitRouting /\ [][Next]_vars

(***************************************************************************)
(* The audience router applied on its own: probe holds an audience text    *)
(* made of up to MaxWords words, then the calendar the router returned.    *)
(***************************************************************************)
MaxWords == 3

TxtAnd == <<" ","a","n","d"," ">>
TxtFriends == <<"F","r","i","e","n","d","s">>
TxtMembers == <<"M","e","m","b","e","r","s">>
TxtPrivate == <<"P","R","I","V","A","T","E">>

AudienceWords == {TxtPrivate, TxtMembers, TxtGeneralPublic, TxtPublicKw, TxtFriends}

RECURSIVE JoinWords(_, _)
JoinWords(words, i) ==
  IF i > Len(words) THEN <<>>
  ELSE IF i = Len(words) THEN words[i]
  ELSE words[i] \o TxtAnd \o JoinWords(words, i + 1)

\* the texts of 0..MaxWords words, as typed or with blanks around them
AudienceTexts ==
  LET joined == {JoinWords(ws, 1) :
                   ws \in UNION {[1..n -> AudienceWords] : n \in 0..MaxWords}}
  IN joined \cup {<<" ">> \o t \o <<" ">> : t \in joined}

InitRoute ==
  /\ config \in Configs
  /\ sheet1 = NoRows
  /\ sheet2 = NoRows
  /\ calendar = {}
  /\ instances = <<>>
  /\ last = Idle
  /\ execs = <<>>
  /\ \E text \in AudienceTexts :
       probe = [fn |-> "route", in |-> text, done |-> FALSE, out |-> ""]

ApplyRoute ==
  /\ probe.fn = "route"
  /\ ~probe.done
  /\ probe' = [probe EXCEPT
                 !.done = TRUE,
                 !.out = getWebsiteCalendarIdForTargetAudience_(probe.in,
                                                                getCalendarIds_(config))]
  /\ UNCHANGED <<sheet1, sheet2, config, calendar, instances, last, execs>>

SpecRoute == InitRoute /\ [][ApplyRoute]_vars

(***************************************************************************)
(* Intake.  The form has just written its answers into a row whose         *)
(* script-owned cells are blank; the form-submit trigger has not run yet.  *)
(* A later re-submission finds the row as the approvals left it.           *)
(***************************************************************************)
SubmittedColumns ==
  [approval |-> "", approver |-> "", buildingId |-> Blank, websiteId |-> Blank,
   note |-> <<>>]

InitIntake ==
  /\ config \in {c \in Configs : c.building /= ""}
  /\ \/ /\ \E form \in {f \in OneShotForms : f.eventName = "Potluck"} :
             sheet1 = [r \in DataRows |-> form @@ SubmittedColumns]
        /\ sheet2 = NoRows
     \/ /\ sheet1 = NoRows
        /\ \E form \in {f \in RecurringForms : f.eventName = "Choir"} :
             sheet2 = [r \in DataRows |-> form @@ SubmittedColumns @@ [skipMonths |-> <<>>]]
  /\ calendar = {}
  /\ instances = <<>>
  /\ last = Idle
  /\ execs = <<>>
  /\ probe = NoProbe

SpecIntake == InitIntake /\ [][Next]_vars

(***************************************************************************)
(* Properties.                                                             *)
(***************************************************************************)
\* the latest invocation was the edit trigger on the approval cell of a record
LastOnApprovalCell ==
  /\ last.handler = "onApprovalEdit"
  /\ last.e.sheet \in {FR1, FR2}
  /\ last.e.row >= FIRST_DATA_ROW
  /\ last.e.col = APPROVAL_COL

\* ... and the edit changed the cell to Approved from another value
LastOnApprovalEdge ==
  LastOnApprovalCell /\ last.e.value = "Approved" /\ last.e.oldValue /= "Approved"

LastRecord == RecordAt(<<last.e.sheet, last.e.row>>)

\* C1: with the edit trigger alone (any sequence of approval-field edits,
\* round trips through Pending/Rejected included), the calendars hold at
\* most one entry per record and slot, for one-shot and recurring records.
AtMostOneEntryPerSlot ==
  \A x, y \in calendar :
    (x.sheet = y.sheet /\ x.row = y.row /\ x.slot = y.slot) => x = y

\* C1 witness: a record with an entry in both slots is approved again after
\* a rejection and nothing is created
ReapprovedWithBothSlotsSynced ==
  /\ LastOnApprovalEdge
  /\ last.e.oldValue = "Rejected"
  /\ last.calls = <<>>
  /\ Cardinality(calendar) = 2
  /\ LastRecord.buildingId /= Blank
  /\ LastRecord.websiteId /= Blank

\* a step keeps every identifier cell that is set
IdentifiersKept ==
  /\ \A r \in DOMAIN sheet1 :
       /\ sheet1[r].buildingId /= Blank => sheet1'[r].buildingId = sheet1[r].buildingId
       /\ sheet1[r].websiteId /= Blank => sheet1'[r].websiteId = sheet1[r].websiteId
  /\ \A r \in DOMAIN sheet2 :
       /\ sheet2[r].buildingId /= Blank => sheet2'[r].buildingId = sheet2[r].buildingId
       /\ sheet2[r].websiteId /= Blank => sheet2'[r].websiteId = sheet2[r].websiteId

\* C2 as stated: no trigger invocation (form submit included) clears or
\* replaces an identifier cell that is set.
IdentifiersWriteOnce == [][IdentifiersKept]_vars

\* C2 amended: the edit trigger keeps every identifier cell that is set;
\* the form-submit trigger leaves both identifier cells of its row blank.
IdentifiersWriteOnceUnderEdits ==
  [][/\ last'.handler = "onApprovalEdit" => IdentifiersKept
     /\ (last'.handler = "onFormSubmit" /\ last'.e.sheet = FR1) =>
          /\ sheet1'[last'.e.row].buildingId = Blank
          /\ sheet1'[last'.e.row].websiteId = Blank
     /\ (last'.handler = "onFormSubmit" /\ last'.e.sheet = FR2) =>
          /\ sheet2'[last'.e.row].buildingId = Blank
          /\ sheet2'[last'.e.row].websiteId = Blank]_vars

\* C2 witness: an approval edge on a record whose two identifiers are set
\* has run and created nothing
ApprovedAgainWithIdentifiersSet ==
  /\ LastOnApprovalEdge
  /\ last.e.oldValue = "Pending"
  /\ last.calls = <<>>
  /\ LastRecord.buildingId /= Blank
  /\ LastRecord.websiteId /= Blank

\* C3: an approval-cell edit from Approved to Approved makes no
\* collaborator call and writes no cell.
ReapprovalIsNoOp ==
  (LastOnApprovalCell /\ last.e.oldValue = "Approved" /\ last.e.value = "Approved")
    => (last.calls = <<>> /\ last.writes = {} /\ ~last.rebuilt)

\* C4: a collaborator create call occurs only in an invocation of the edit
\* trigger on the approval cell whose old value is not Approved and whose
\* new value is Approved.
CallsOnlyOnApprovalEdge == last.calls /= <<>> => LastOnApprovalEdge

\* C4 witness: an Approved-to-Approved edit on a record whose website slot
\* is routable and still empty made no call
ReapprovalOfUnsyncedRecord ==
  /\ LastOnApprovalCell
  /\ last.e.oldValue = "Approved"
  /\ last.e.value = "Approved"
  /\ last.calls = <<>>
  /\ LastRecord.websiteId = Blank
  /\ Contains(normalize_(LastRecord.targetAudience), TxtPublicKw)
  /\ config.public /= ""

\* the calls of the latest invocation for a slot
LastCalls(slot) == {i \in DOMAIN last.calls : last.calls[i].slot = slot}

LastFailed(slot) == \E i \in LastCalls(slot) : ~last.calls[i].ok

LastSucceeded(slot) == \E i \in LastCalls(slot) : last.calls[i].ok

\* the slot was attempted: a create call was made, or the calendar lookup
\* found nothing to call
LastAttempted(slot) == LastCalls(slot) /= {} \/ slot \in last.notFound

\* the destinations of a record under the current configuration
WebsiteDestination(rec) ==
  getWebsiteCalendarIdForTargetAudience_(rec.targetAudience, getCalendarIds_(config))

HasBuildingDestination(rec) ==
  normalize_(rec.buildingParts) /= <<>> /\ config.building /= ""

\* the record carries what synchronisation needs (title, start and end)
SyncReady(key) ==
  LET rec == RecordAt(key)
  IN /\ rec.eventName /= ""
     /\ IsTime(rec.startTime) /\ IsTime(rec.endTime)
     /\ key[1] = FR1 => IsDate(rec.date)
     /\ key[1] = FR2 => dayOfWeekToJsIndex_(rec.dayOfWeek) /= Null

\* C5: on an approval edge, a failing facility call does not keep the
\* public/member slot from being attempted and from storing its identifier,
\* and a failing public/member call does not undo the facility slot; for
\* one-shot and recurring records.
SlotsIndependentUnderFailure ==
  LastOnApprovalEdge =>
    /\ (LastFailed("building") /\ WebsiteDestination(LastRecord) /= ""
          /\ ~LastSucceeded("website"))
         => (LastAttempted("website") \/ LastRecord.websiteId /= Blank)
    /\ LastSucceeded("website") => LastRecord.websiteId /= Blank
    /\ (LastFailed("website") /\ LastSucceeded("building"))
         => LastRecord.buildingId /= Blank

\* C6: a failing collaborator call never leaves the handler as an exception
\* and is recorded as a note on the record carrying the error's message.
FailuresAnnotatedNotThrown ==
  /\ ~last.threw
  /\ LastOnApprovalEdge =>
       /\ LastFailed("building") =>
            \E i \in DOMAIN LastRecord.note : LastRecord.note[i] = NoteBuildingFailed
       /\ LastFailed("website") =>
            \E i \in DOMAIN LastRecord.note : LastRecord.note[i] = NoteWebsiteFailed

\* an entry is created only for a slot whose identifier cell was blank
CreatedOnlyForBlankSlots ==
  \A x \in calendar' \ calendar :
    LET before == RecordAt(<<x.sheet, x.row>>)
    IN IF x.slot = "building" THEN before.buildingId = Blank ELSE before.websiteId = Blank

\* C7: a slot whose call failed keeps a blank identifier; an approval edge
\* attempts every slot that has a destination and a blank identifier, and
\* creates nothing for a slot whose identifier is set.
RetryExactlyTheEmptySlots ==
  /\ [](LastOnApprovalEdge =>
          /\ (LastFailed("building") /\ ~LastSucceeded("building"))
               => LastRecord.buildingId = Blank
          /\ (LastFailed("website") /\ ~LastSucceeded("website"))
               => LastRecord.websiteId = Blank
          /\ (SyncReady(<<last.e.sheet, last.e.row>>) /\ HasBuildingDestination(LastRecord)
                /\ LastRecord.buildingId = Blank) => LastAttempted("building")
          /\ (SyncReady(<<last.e.sheet, last.e.row>>) /\ WebsiteDestination(LastRecord) /= ""
                /\ LastRecord.websiteId = Blank) => LastAttempted("website"))
  /\ [][CreatedOnlyForBlankSlots]_vars

\* C8: interleaved executions of the approval trigger for one record create
\* at most one entry per record and slot, and an identifier cell that is
\* set names the one entry of its slot.
SafeUnderInterleaving ==
  /\ \A x, y \in calendar :
       (x.sheet = y.sheet /\ x.row = y.row /\ x.slot = y.slot) => x = y
  /\ \A key \in RecordKeys :
       /\ RecordAt(key).buildingId /= Blank =>
            \E x \in calendar : /\ x.id = RecordAt(key).buildingId
                                /\ <<x.sheet, x.row, x.slot>> = <<key[1], key[2], "building">>
       /\ RecordAt(key).websiteId /= Blank =>
            \E x \in calendar : /\ x.id = RecordAt(key).websiteId
                                /\ <<x.sheet, x.row, x.slot>> = <<key[1], key[2], "website">>

\* C9: an approval-cell edit from Approved to another value makes no
\* collaborator call and writes no cell; it rebuilds the instance list for
\* a recurring record and does nothing at all for a one-shot record.
LeavingApprovedOnlyRebuilds ==
  (LastOnApprovalCell /\ last.e.oldValue = "Approved" /\ last.e.value /= "Approved")
    => /\ last.calls = <<>>
       /\ last.writes = {}
       /\ last.rebuilt = (last.e.sheet = FR2)

\* the latest invocation was the edit trigger on the skip-months cell
OnSkipMonthsCell(l) ==
  l.handler = "onApprovalEdit" /\ l.e.sheet = FR2 /\ l.e.col = SKIP_MONTHS_COL

\* C10: an edit of a recurring record's skip-months cell rebuilds the
\* instance list from the records and changes nothing else: no collaborator
\* call, no identifier, approval or approver cell, no calendar, no setting.
SkipMonthsEditOnlyRebuilds ==
  [][OnSkipMonthsCell(last') =>
       /\ last'.calls = <<>>
       /\ calendar' = calendar
       /\ config' = config
       /\ sheet1' = sheet1
       /\ \A r \in DOMAIN sheet2 :
            sheet2'[r] = [sheet2[r] EXCEPT !.skipMonths = sheet2'[r].skipMonths]
       /\ instances' = rebuildRecurringInstances_(sheet2', config')]_vars

\* C10 witness: the skip-months cell of an approved, synchronised Second
\* Tuesday record was set to "3, 7" and the list holds its ten instances
SkipMonthsEditedOnSyncedRecord ==
  /\ OnSkipMonthsCell(last)
  /\ LastRecord.approval = "Approved"
  /\ LastRecord.approver = ""
  /\ LastRecord.websiteId /= Blank
  /\ LastRecord.skipMonths = TxtSkip37
  /\ Len(instances) = 10

\* the record of a key after the step
RecordAtNext(key) == IF key[1] = FR1 THEN sheet1'[key[2]] ELSE sheet2'[key[2]]

\* C11: on an approval edge a slot whose identifier cell is set is passed
\* over, whatever the record's padding, times, audience and space now are:
\* no collaborator call or calendar lookup for it, its identifier kept; the
\* approver cell is still written when the editor's address is known.
SyncedSlotsSkippedOnApproval ==
  [][LastOnApprovalEdge' =>
       LET key == <<last'.e.sheet, last'.e.row>>
           before == RecordAt(key)
           after == RecordAtNext(key)
       IN /\ before.buildingId /= Blank =>
               /\ \A i \in DOMAIN last'.calls : last'.calls[i].slot /= "building"
               /\ "building" \notin last'.notFound
               /\ after.buildingId = before.buildingId
          /\ before.websiteId /= Blank =>
               /\ \A i \in DOMAIN last'.calls : last'.calls[i].slot /= "website"
               /\ "website" \notin last'.notFound
               /\ after.websiteId = before.websiteId
          /\ IF <<key[1], key[2], "approver">> \in last'.writes
               THEN after.approver = ApproverEmail
               ELSE after.approver = before.approver]_vars

\* C11 witness: a record whose two identifiers are set and whose padding,
\* start time, audience and space were all revised since is approved again:
\* nothing is called and the approver is written
ApprovedAgainAfterRevision ==
  /\ LastOnApprovalEdge
  /\ last.calls = <<>>
  /\ LastRecord.buildingId /= Blank
  /\ LastRecord.websiteId /= Blank
  /\ LastRecord.setupTeardown = Txt2Hours
  /\ LastRecord.startTime = SevenPm
  /\ LastRecord.targetAudience = TxtMembersAndFriends
  /\ LastRecord.buildingParts = <<>>
  /\ <<last.e.sheet, last.e.row, "approver">> \in last.writes
  /\ LastRecord.approver = ApproverEmail

\* C12: every cell the edit trigger writes lies in the row of the edited
\* record in Form Responses 1 or Form Responses 2; an edit in another sheet
\* or outside the approval and skip-months columns writes nothing, and the
\* configuration keeps the values it was set up with.
WritesConfinedToRecordRow ==
  /\ config \in Configs
  /\ last.handler = "onApprovalEdit" =>
       /\ \A w \in last.writes :
            w[1] \in {FR1, FR2} /\ w[1] = last.e.sheet /\ w[2] = last.e.row
       /\ (last.e.sheet \notin {FR1, FR2}
             \/ last.e.col \notin {APPROVAL_COL, SKIP_MONTHS_COL})
            => last.writes = {}

\* C13: for a recurring record every approval-cell edit that enters Approved
\* and every one that leaves Approved ends with a rebuild of the instance
\* list, whether the slots succeeded, failed, were passed over, or the
\* record lacks what synchronisation needs.
RecurringApprovalEditsRebuild ==
  (/\ LastOnApprovalCell
   /\ last.e.sheet = FR2
   /\ (last.e.oldValue = "Approved") /= (last.e.value = "Approved"))
    => /\ last.rebuilt
       /\ instances = rebuildRecurringInstances_(sheet2, config)

\* the latest invocation ran on an approval edge of a record that lacks
\* its title or a resolvable start or end
LastOnIncompleteApproval ==
  LastOnApprovalEdge /\ ~SyncReady(<<last.e.sheet, last.e.row>>)

\* C14 as stated: approving a record without a title or without resolvable
\* start and end makes no collaborator call, adds no annotation and writes
\* no cell of the record.
IncompleteApprovalWritesNothing ==
  LastOnIncompleteApproval =>
    (last.calls = <<>> /\ last.notFound = {} /\ last.writes = {})

\* C14 amended: approving such a record makes no collaborator call, adds no
\* annotation and creates nothing; the only cell it may write is the
\* approver, set to the editor's address.
IncompleteApprovalOnlyRecordsApprover ==
  LastOnIncompleteApproval =>
    /\ last.calls = <<>>
    /\ last.notFound = {}
    /\ ~last.threw
    /\ last.writes \subseteq {<<last.e.sheet, last.e.row, "approver">>}
    /\ last.writes /= {} => LastRecord.approver = ApproverEmail
    /\ LastRecord.note = <<>>
    /\ LastRecord.buildingId = Blank
    /\ LastRecord.websiteId = Blank
    /\ calendar = {}

\* C14 witness: a record with no title has been approved by an editor whose
\* address is known
IncompleteRecordApproved ==
  /\ LastOnIncompleteApproval
  /\ LastRecord.eventName = ""
  /\ LastRecord.buildingParts /= <<>>
  /\ last.writes = {<<last.e.sheet, last.e.row, "approver">>}
  /\ LastRecord.approver = ApproverEmail

\* the audience text of the record names the private keyword, in any case
IsPrivate(rec) == Contains(ToLowerCase(rec.targetAudience), TxtPrivateKw)

\* C15: a record whose audience text contains "private" in any case is
\* never published, whatever other keyword the text holds: its website
\* identifier stays blank and every entry made for it is a building entry
\* on the building calendar.
PrivateNeverPublished ==
  \A key \in RecordKeys :
    IsPrivate(RecordAt(key)) =>
      /\ RecordAt(key).websiteId = Blank
      /\ \A x \in calendar :
           (x.sheet = key[1] /\ x.row = key[2])
             => (x.slot = "building" /\ x.cal = BuildingCal)

\* C15 witness: a private record that also names members or the general
\* public was approved and got its building entry only
PrivateRecordApproved ==
  /\ LastOnApprovalEdge
  /\ IsPrivate(LastRecord)
  /\ \/ Contains(ToLowerCase(LastRecord.targetAudience), TxtMembersKw)
     \/ Contains(ToLowerCase(LastRecord.targetAudience), TxtGeneralPublicKw)
  /\ config.member = MemberCal
  /\ config.public = PublicCal
  /\ LastRecord.approval = "Approved"
  /\ LastRecord.buildingId /= Blank
  /\ Len(last.calls) = 1

\* the router has been applied
Routed == probe.fn = "route" /\ probe.done

\* the precedence over the keywords of the lower-cased text
RouterFollowsPrecedence ==
  Routed =>
    LET t == ToLowerCase(probe.in)
    IN probe.out =
         IF Contains(t, TxtPrivateKw) THEN ""
         ELSE IF Contains(t, TxtMembersKw) THEN config.member
         ELSE IF Contains(t, TxtGeneralPublicKw) \/ Contains(t, TxtPublicKw)
           THEN config.public
         ELSE ""

\* the cases named with the router
RouterNamedCases ==
  Routed =>
    /\ probe.in = TxtGeneralPublic => probe.out = PublicCal
    /\ probe.in = TxtMembersAndFriends => probe.out = MemberCal
    /\ (Contains(probe.in, TxtMembers) /\ Contains(probe.in, TxtPublicKw)
          /\ ~Contains(probe.in, TxtPrivate)) => probe.out = MemberCal

\* C16: the router's result follows the precedence over the keywords of the
\* lower-cased text: "private" gives no calendar; else "members" gives the
\* member calendar; else "general public" or "public" gives the public
\* calendar; else no calendar.  So "General Public" gives the public
\* calendar, "Members and Friends" the member calendar, and a text naming
\* both members and public the member calendar.
RouterIsPrecedenceFunction == RouterFollowsPrecedence /\ RouterNamedCases

\* C16 witness: a text naming the public before the members was routed to
\* the member calendar
PublicAndMembersRouted ==
  /\ Routed
  /\ probe.in = TxtPublicKw \o TxtAnd \o TxtMembers
  /\ probe.out = MemberCal

\* C17: with the building calendar configured, an approval edge of a
\* complete record attempts the building slot exactly when the trimmed
\* building-parts text is non-empty and the building identifier was blank,
\* whatever the audience; a successful attempt leaves the record with its
\* building entry.
FacilityDecidedBySpaceRequest ==
  (LastOnApprovalEdge /\ SyncReady(<<last.e.sheet, last.e.row>>) /\ config.building /= "")
    => /\ LastAttempted("building") <=>
            /\ Trim(LastRecord.buildingParts) /= <<>>
            /\ LastRecord.buildingId = Blank \/ LastSucceeded("building")
       /\ LastSucceeded("building") =>
            \E x \in calendar :
              /\ x.id = LastRecord.buildingId
              /\ x.cal = config.building
              /\ <<x.sheet, x.row, x.slot>> = <<last.e.sheet, last.e.row, "building">>

\* C17 witness: a public record whose building-parts cell holds a blank
\* only was approved and published without a building entry
PublicWithoutSpaceApproved ==
  /\ LastOnApprovalEdge
  /\ LastRecord.buildingParts = <<" ">>
  /\ LastRecord.targetAudience = TxtGeneralPublic
  /\ LastRecord.websiteId /= Blank
  /\ LastRecord.buildingId = Blank
  /\ ~LastAttempted("building")

\* the slots of a record that have a destination and a blank identifier
OpenSlots(rec) ==
  (IF HasBuildingDestination(rec) /\ rec.buildingId = Blank THEN {"building"} ELSE {})
    \cup (IF WebsiteDestination(rec) /= "" /\ rec.websiteId = Blank THEN {"website"} ELSE {})

ApproverWrittenOnlyOnApproval ==
  (/\ last.handler = "onApprovalEdit"
   /\ \E w \in last.writes : w[3] = "approver")
    => LastOnApprovalEdge

(***************************************************************************)
(* The occurrence calculation applied on its own: probe holds a year, a    *)
(* month, a weekday index and an ordinal (Null for "Every"), then the      *)
(* dates computeMonthlyOccurrenceDates_ returned, and beside them the      *)
(* dates it returns for "Every" with the same year, month and weekday.     *)
(***************************************************************************)
YearSpan == 4

\* the years from the clock year on, and two century years (2000 is a
\* leap year, 2100 is not)
ProbedYears == (ClockYear .. (ClockYear + YearSpan - 1)) \cup {2000, 2100}

InitDates ==
  /\ config \in Configs
  /\ sheet1 = NoRows
  /\ sheet2 = NoRows
  /\ calendar = {}
  /\ instances = <<>>
  /\ last = Idle
  /\ execs = <<>>
  /\ \E year \in ProbedYears, month0 \in 0..11, jsWeekdayIndex \in 0..6,
        bysetposOrNull \in {Null} \cup (1..4) :
       probe = [fn |-> "dates",
                in |-> [year |-> year, month0 |-> month0,
                        weekday |-> jsWeekdayIndex, bysetpos |-> bysetposOrNull],
                done |-> FALSE, out |-> <<>>, every |-> <<>>]

ApplyDates ==
  /\ probe.fn = "dates"
  /\ ~probe.done
  /\ probe' = [probe EXCEPT
                 !.done = TRUE,
                 !.out = computeMonthlyOccurrenceDates_(probe.in.year, probe.in.month0,
                                                        probe.in.weekday, probe.in.bysetpos),
                 !.every = computeMonthlyOccurrenceDates_(probe.in.year, probe.in.month0,
                                                          probe.in.weekday, Null)]
  /\ UNCHANGED <<sheet1, sheet2, config, calendar, instances, last, execs>>

SpecDates == InitDates /\ [][ApplyDates]_vars

(***************************************************************************)
(* Occurrence dates (C21, C22).  The properties measure the result against *)
(* a calendar of their own: the Gregorian leap rule, a table of month      *)
(* lengths and a weekday congruence that starts from no epoch.             *)
(***************************************************************************)
RefLeap(y) == (y % 4 = 0 /\ y % 100 /= 0) \/ y % 400 = 0

RefMonthLength(y, m0) ==
  LET table == <<31, 28, 31, 30, 31, 30, 31, 31, 30, 31, 30, 31>>
  IN IF m0 = 1 /\ RefLeap(y) THEN 29 ELSE table[m0 + 1]

\* weekday (0 = Sunday) of day d of month m0 (0-based) of year y
RefWeekday(y, m0, d) ==
  LET shift == <<0, 3, 2, 5, 0, 3, 5, 1, 4, 6, 2, 4>>
      yy == IF m0 < 2 THEN y - 1 ELSE y
  IN (yy + (yy \div 4) - (yy \div 100) + (yy \div 400) + shift[m0 + 1] + d) % 7

\* the days of the month that fall on the weekday
RefDaysOnWeekday(y, m0, weekday) ==
  {d \in 1..RefMonthLength(y, m0) : RefWeekday(y, m0, d) = weekday}

DatesApplied == probe.fn = "dates" /\ probe.done

\* C21: with no ordinal ("Every") the result is all and only the dates of
\* the requested month that fall on the requested weekday, in strictly
\* ascending order, consecutive ones 7 days apart, and there are 4 or 5.
EveryListsAllWeekdaysOfMonth ==
  (DatesApplied /\ probe.in.bysetpos = Null) =>
    LET in == probe.in
        out == probe.out
    IN /\ \A i \in 1..Len(out) : out[i].y = in.year /\ out[i].m = in.month0
       /\ {out[i].d : i \in 1..Len(out)} = RefDaysOnWeekday(in.year, in.month0, in.weekday)
       /\ \A i \in 1..(Len(out) - 1) : out[i + 1].d = out[i].d + 7
       /\ Len(out) \in {4, 5}

\* C21 witness: the five occurrences of a weekday in the 29-day February
\* of a leap year have been listed.
FiveInLeapFebruary ==
  /\ DatesApplied
  /\ probe.in.bysetpos = Null
  /\ probe.in.month0 = 1
  /\ RefLeap(probe.in.year)
  /\ Len(probe.out) = 5
  /\ probe.out[5].d = 29

\* C22: with an ordinal n in 1..4 the result holds at most one date; a
\* returned date lies in the requested month, falls on the requested
\* weekday, is the n-th such day of the month, on day
\* 1 + ((weekday - weekdayOfFirst + 7) mod 7) + 7(n-1), and is returned only
\* if the month has at least n days on that weekday.
NthIsTheNthWeekdayOfMonth ==
  (DatesApplied /\ probe.in.bysetpos \in 1..4) =>
    LET in == probe.in
        out == probe.out
        onWeekday == RefDaysOnWeekday(in.year, in.month0, in.weekday)
    IN /\ Len(out) <= 1
       /\ \A i \in 1..Len(out) :
            /\ out[i].y = in.year
            /\ out[i].m = in.month0
            /\ out[i].d \in onWeekday
            /\ Cardinality({d \in onWeekday : d <= out[i].d}) = in.bysetpos
            /\ out[i].d = 1 + ((in.weekday - RefWeekday(in.year, in.month0, 1) + 7) % 7)
                            + 7 * (in.bysetpos - 1)
            /\ Cardinality(onWeekday) >= in.bysetpos

\* C22 witness: a fourth occurrence that falls on the 28th, the latest day
\* an ordinal can reach, has been returned.
FourthOnTwentyEighth ==
  /\ DatesApplied
  /\ probe.in.bysetpos = 4
  /\ Len(probe.out) = 1
  /\ probe.out[1].d = 28

(***************************************************************************)
(* The recurrence rule of a series, built on its own: probe holds the      *)
(* weekday and ordinal answers of a record, then the rule text the         *)
(* recurring branch builds for them with the year of the configuration     *)
(* (the empty text when the branch returns before the rule is built).      *)
(***************************************************************************)
TxtFreqMonthly == <<"F","R","E","Q","=","M","O","N","T","H","L","Y">>
TxtByday == <<"B","Y","D","A","Y","=">>
TxtWkstSu == <<"W","K","S","T","=","S","U">>
TxtUntil == <<"U","N","T","I","L","=">>
TxtBysetpos == <<"B","Y","S","E","T","P","O","S","=">>

\* the characters of a BYDAY token
TokenText(token) ==
  CASE token = "SU" -> <<"S","U">>
    [] token = "MO" -> <<"M","O">>
    [] token = "TU" -> <<"T","U">>
    [] token = "WE" -> <<"W","E">>
    [] token = "TH" -> <<"T","H">>
    [] token = "FR" -> <<"F","R">>
    [] token = "SA" -> <<"S","A">>

\* a number below 100 as two digits, a year as four
TwoDigits(n) == <<Digits[((n \div 10) % 10) + 1], Digits[(n % 10) + 1]>>
FourDigits(n) == TwoDigits(n \div 100) \o TwoDigits(n % 100)

\* Utilities.formatDate(new Date(Date.UTC(y, month0, d, h, mi, s)), 'UTC',
\* "yyyyMMdd'T'HHmmss'Z'")
formatDateUtc(y, month0, d, h, mi, s) ==
  FourDigits(y) \o TwoDigits(month0 + 1) \o TwoDigits(d) \o <<"T">>
    \o TwoDigits(h) \o TwoDigits(mi) \o TwoDigits(s) \o <<"Z">>

\* Array.prototype.splice(start, 0, item)
Splice(parts, start, item) ==
  SubSeq(parts, 1, start) \o <<item>> \o SubSeq(parts, start + 1, Len(parts))

RECURSIVE Join(_, _)
\* Array.prototype.join(sep)
Join(parts, sep) ==
  IF parts = <<>> THEN <<>>
  ELSE IF Len(parts) = 1 THEN parts[1]
  ELSE parts[1] \o sep \o Join(Tail(parts), sep)

\* variant: the ordinal part is put in for "Every" as well, with position 1
RecurrenceRule_AlwaysPositioned(year, byday, bysetpos) ==
  LET untilUtc == formatDateUtc(year, 11, 31, 23, 59, 59)
      rruleParts == <<TxtFreqMonthly, TxtByday \o TokenText(byday), TxtWkstSu,
                      TxtUntil \o untilUtc>>
      position == IF bysetpos = Null THEN 1 ELSE bysetpos
  IN Join(Splice(rruleParts, 2, TxtBysetpos \o <<Digits[position + 1]>>), <<";">>)

\* variant: the ordinal part is put in front of the rule
RecurrenceRule_PositionFirst(year, byday, bysetpos) ==
  LET untilUtc == formatDateUtc(year, 11, 31, 23, 59, 59)
      rruleParts == <<TxtFreqMonthly, TxtByday \o TokenText(byday), TxtWkstSu,
                      TxtUntil \o untilUtc>>
  IN Join(IF bysetpos /= Null
            THEN Splice(rruleParts, 0, TxtBysetpos \o <<Digits[bysetpos + 1]>>)
            ELSE rruleParts,
          <<";">>)

\* untilUtc, rruleParts, the splice of BYSETPOS at index 2, and the join
RecurrenceRule(year, byday, bysetpos) ==
  LET untilUtc == formatDateUtc(year, 11, 31, 23, 59, 59)
      rruleParts == <<TxtFreqMonthly, TxtByday \o TokenText(byday), TxtWkstSu,
                      TxtUntil \o untilUtc>>
  IN Join(IF bysetpos /= Null
            THEN Splice(rruleParts, 2, TxtBysetpos \o <<Digits[bysetpos + 1]>>)
            ELSE rruleParts,
          <<";">>)

TxtFifth == <<"F","i","f","t","h">>
TxtTuesdayPadded == <<" ">> \o TxtTuesday \o <<" ">>

\* ordinal answers: the five labels of the form, one it does not have, none
PatternTexts == {TxtEvery, TxtFirst, TxtSecond, TxtThird, TxtFourth, TxtFifth, <<>>}

\* weekday answers: the seven names, one with blanks around it, one unknown
WeekdayTexts ==
  {WeekdayNames[i] : i \in 1..7} \cup {TxtTuesdayPadded, TxtSomeday}

InitRule ==
  /\ config \in Configs
  /\ sheet1 = NoRows
  /\ sheet2 = NoRows
  /\ calendar = {}
  /\ instances = <<>>
  /\ last = Idle
  /\ execs = <<>>
  /\ \E dayOfWeekRaw \in WeekdayTexts, repeatPatternRaw \in PatternTexts :
       probe = [fn |-> "rule",
                in |-> [dayOfWeek |-> dayOfWeekRaw, repeatPattern |-> repeatPatternRaw],
                done |-> FALSE, out |-> <<>>]

\* the recurring branch from the year lookup to the joined rule
ApplyRule ==
  /\ probe.fn = "rule"
  /\ ~probe.done
  /\ LET year == getRecurringYear_(config)
         jsWeekdayIndex == dayOfWeekToJsIndex_(probe.in.dayOfWeek)
         byday == dayOfWeekToRruleByday_(probe.in.dayOfWeek)
         bysetpos == repeatPatternToBysetpos_(probe.in.repeatPattern)
     IN probe' = [probe EXCEPT
                    !.done = TRUE,
                    !.out = IF jsWeekdayIndex = Null \/ byday = ""
                              THEN <<>>
                              ELSE RecurrenceRule(year, byday, bysetpos)]
  /\ UNCHANGED <<sheet1, sheet2, config, calendar, instances, last, execs>>

SpecRule == InitRule /\ [][ApplyRule]_vars

(***************************************************************************)
(* Recurrence rule (C23, C30).  The properties take the rule text apart    *)
(* at its semicolons and look at the parts.                                *)
(***************************************************************************)
RECURSIVE SplitAt(_, _)
\* the pieces of t between occurrences of the character sep
SplitAt(t, sep) ==
  IF \A i \in 1..Len(t) : t[i] /= sep
    THEN <<t>>
    ELSE LET k == CHOOSE i \in 1..Len(t) :
                    t[i] = sep /\ \A j \in 1..(i - 1) : t[j] /= sep
         IN <<SubSeq(t, 1, k - 1)>> \o SplitAt(SubSeq(t, k + 1, Len(t)), sep)

StartsWith(t, prefix) ==
  Len(t) >= Len(prefix) /\ SubSeq(t, 1, Len(prefix)) = prefix

\* what follows the prefix in t
After(t, prefix) == SubSeq(t, Len(prefix) + 1, Len(t))

RuleBuilt == probe.fn = "rule" /\ probe.done /\ probe.out /= <<>>

RuleParts == SplitAt(probe.out, ";")

\* positions of the parts of the rule that start with the prefix
PartsWith(prefix) == {i \in 1..Len(RuleParts) : StartsWith(RuleParts[i], prefix)}

\* the ordinal answer is one of First..Fourth
OrdinalGiven ==
  \E i \in 1..4 : Trim(probe.in.repeatPattern) = OrdinalNames[i]

\* the year the rule is built for: E2 when set, the clock's year otherwise
ConfiguredYear == IF config.year /= 0 THEN config.year ELSE ClockYear

\* C23 as stated: the parts of the rule come in the order FREQ=MONTHLY,
\* BYSETPOS=n (only with an ordinal), BYDAY=<token>, WKST=SU,
\* UNTIL=<timestamp>; a BYSETPOS part stands before the BYDAY part.
RulePartsOrderedPositionFirst ==
  RuleBuilt =>
    LET parts == RuleParts
        n == Len(parts)
    IN /\ parts[1] = TxtFreqMonthly
       /\ n = IF OrdinalGiven THEN 5 ELSE 4
       /\ OrdinalGiven => StartsWith(parts[2], TxtBysetpos)
       /\ StartsWith(parts[n - 2], TxtByday)
       /\ parts[n - 1] = TxtWkstSu
       /\ StartsWith(parts[n], TxtUntil)
       /\ \A i \in PartsWith(TxtBysetpos), j \in PartsWith(TxtByday) : i < j

\* C23 amended: the parts of the rule come in the order FREQ=MONTHLY,
\* BYDAY=<token>, BYSETPOS=n (only with an ordinal), WKST=SU,
\* UNTIL=<timestamp>; a BYSETPOS part stands right after the BYDAY part.
RulePartsOrderedPositionAfterDay ==
  RuleBuilt =>
    LET parts == RuleParts
        n == Len(parts)
    IN /\ parts[1] = TxtFreqMonthly
       /\ StartsWith(parts[2], TxtByday)
       /\ n = IF OrdinalGiven THEN 5 ELSE 4
       /\ OrdinalGiven => StartsWith(parts[3], TxtBysetpos)
       /\ parts[n - 1] = TxtWkstSu
       /\ StartsWith(parts[n], TxtUntil)
       /\ \A i \in PartsWith(TxtBysetpos), j \in PartsWith(TxtByday) : i = j + 1

\* C23 witness: the rule of a "Second Tuesday" record has been built, with
\* five parts.
RuleBuiltForSecondTuesday ==
  /\ RuleBuilt
  /\ probe.in.repeatPattern = TxtSecond
  /\ probe.in.dayOfWeek = TxtTuesday
  /\ Len(RuleParts) = 5
  /\ PartsWith(TxtBysetpos) /= {}

\* C30: a rule has exactly one FREQ=MONTHLY part, one BYDAY= part, one
\* WKST=SU part and one UNTIL= part; it has a BYSETPOS= part, a single one
\* with a value in 1..4, exactly when the ordinal is one of First..Fourth;
\* the UNTIL value is 23:59:59 UTC on 31 December of the configured year.
RuleHasEachPartOnce ==
  RuleBuilt =>
    LET parts == RuleParts
        until == After(parts[CHOOSE i \in PartsWith(TxtUntil) : TRUE], TxtUntil)
    IN /\ Cardinality({i \in 1..Len(parts) : parts[i] = TxtFreqMonthly}) = 1
       /\ Cardinality(PartsWith(<<"F","R","E","Q","=">>)) = 1
       /\ Cardinality(PartsWith(TxtByday)) = 1
       /\ Cardinality({i \in 1..Len(parts) : parts[i] = TxtWkstSu}) = 1
       /\ Cardinality(PartsWith(<<"W","K","S","T","=">>)) = 1
       /\ Cardinality(PartsWith(TxtUntil)) = 1
       /\ Cardinality(PartsWith(TxtBysetpos)) = IF OrdinalGiven THEN 1 ELSE 0
       /\ \A i \in PartsWith(TxtBysetpos) :
            LET value == After(parts[i], TxtBysetpos)
            IN /\ Len(value) = 1
               /\ value[1] \in {"1", "2", "3", "4"}
               /\ OrdinalNames[DigitRun(value, 0)] = Trim(probe.in.repeatPattern)
       /\ Len(until) = 16
       /\ \A k \in (1..15) \ {9} : until[k] \in {Digits[d] : d \in 1..10}
       /\ DigitRun(SubSeq(until, 1, 4), 0) = ConfiguredYear
       /\ SubSeq(until, 5, 16) =
            <<"1","2","3","1","T","2","3","5","9","5","9","Z">>

\* C30 witness: rules have been built both for "Every" (no BYSETPOS part)
\* and, here, for "Fourth" with the year of the configuration sheet.
RuleBuiltForFourthInConfiguredYear ==
  /\ RuleBuilt
  /\ probe.in.repeatPattern = TxtFourth
  /\ config.year /= 0
  /\ Cardinality(PartsWith(TxtBysetpos)) = 1
  /\ Cardinality(PartsWith(TxtUntil)) = 1

(***************************************************************************)
(* The skip-months parser applied on its own: probe holds the text of a    *)
(* skip-months cell, a list of up to MaxTokens tokens separated by ", ",   *)
(* then the set parseSkipMonths_ returned.                                 *)
(***************************************************************************)
MaxTokens == 3

TxtCommaBlank == <<",", " ">>
TxtSkipExample == <<"3",","," ","7",","," ","1","3",","," ","a","b","c",","," ","0">>

\* month numbers in and out of range, padded, not a number, a number
\* followed by a letter, and nothing
SkipTokens ==
  { <<"3">>, <<"7">>, <<"1","3">>, <<"0">>, <<" ","1","2">>,
    <<"a","b","c">>, <<"7","x">>, <<>> }

SkipMonthsTexts ==
  {Join(ts, TxtCommaBlank) : ts \in UNION {[1..n -> SkipTokens] : n \in 0..MaxTokens}}
    \cup {TxtSkipExample}

InitSkip ==
  /\ config \in Configs
  /\ sheet1 = NoRows
  /\ sheet2 = NoRows
  /\ calendar = {}
  /\ instances = <<>>
  /\ last = Idle
  /\ execs = <<>>
  /\ \E skipMonthsRaw \in SkipMonthsTexts :
       probe = [fn |-> "skip", in |-> skipMonthsRaw, done |-> FALSE, out |-> {}]

ApplySkip ==
  /\ probe.fn = "skip"
  /\ ~probe.done
  /\ probe' = [probe EXCEPT !.done = TRUE, !.out = parseSkipMonths_(probe.in)]
  /\ UNCHANGED <<sheet1, sheet2, config, calendar, instances, last, execs>>

SpecSkip == InitSkip /\ [][ApplySkip]_vars

(***************************************************************************)
(* Skip months (C26).                                                      *)
(***************************************************************************)
SkipApplied == probe.fn = "skip" /\ probe.done

\* the token, trimmed, is an integer numeral: an optional sign and digits
IsNumeral(token) ==
  LET t == Trim(token)
      body == IF t /= <<>> /\ Head(t) \in {"-", "+"} THEN Tail(t) ELSE t
  IN body /= <<>> /\ \A i \in 1..Len(body) : IsDigit(body[i])

NumeralValue(token) ==
  LET t == Trim(token)
  IN IF Head(t) = "-" THEN 0 - DigitRun(Tail(t), 0)
     ELSE IF Head(t) = "+" THEN DigitRun(Tail(t), 0)
     ELSE DigitRun(t, 0)

\* the months named by the tokens that are integers in 1..12
MonthsNamed(text) ==
  LET tokens == SplitAt(text, ",")
  IN {NumeralValue(tokens[i]) - 1 :
        i \in {j \in 1..Len(tokens) :
                 IsNumeral(tokens[j]) /\ NumeralValue(tokens[j]) \in 1..12}}

\* C26: the parser maps a comma-separated token list to exactly the set
\* { n-1 : some trimmed token is an integer n with 1 <= n <= 12 }; tokens
\* out of range or not a number are dropped, duplicates collapse, the
\* result lies within 0..11, an empty text gives the empty set, and
\* "3, 7, 13, abc, 0" gives {2, 6}.
SkipSetIsExactlyTheMonthsNamed ==
  SkipApplied =>
    /\ probe.out = MonthsNamed(probe.in)
    /\ probe.out \subseteq 0..11
    /\ probe.in = <<>> => probe.out = {}
    /\ probe.in = TxtSkipExample => probe.out = {2, 6}

(***************************************************************************)
(* Recurring records whose ordinal or weekday answer is not one the        *)
(* lookup helpers know: an ordinal the form does not have, a weekday in    *)
(* lower case, no weekday.                                                 *)
(***************************************************************************)
TxtTuesdayLower == <<"t","u","e","s","d","a","y">>

LabelForms ==
  { [eventName |-> "Yoga", repeatPattern |-> TxtFifth, dayOfWeek |-> TxtWednesday,
     startTime |-> SixPm, endTime |-> EightPm, targetAudience |-> TxtGeneralPublic,
     buildingParts |-> TxtHall, setupTeardown |-> TxtNone],
    [eventName |-> "Walk", repeatPattern |-> TxtFirst, dayOfWeek |-> TxtTuesdayLower,
     startTime |-> SixPm, endTime |-> EightPm, targetAudience |-> TxtGeneralPublic,
     buildingParts |-> TxtHall, setupTeardown |-> TxtNone],
    [eventName |-> "Vigil", repeatPattern |-> TxtEvery, dayOfWeek |-> <<>>,
     startTime |-> SixPm, endTime |-> EightPm, targetAudience |-> TxtGeneralPublic,
     buildingParts |-> TxtHall, setupTeardown |-> Txt30Min] }

InitLabels ==
  /\ config \in {c \in Configs : c.building /= ""}
  /\ sheet1 = NoRows
  /\ \E form \in LabelForms :
       sheet2 = [r \in DataRows |-> NewRecurringRow(form, <<>>)]
  /\ calendar = {}
  /\ instances = <<>>
  /\ last = Idle
  /\ execs = <<>>
  /\ probe = NoProbe

SpecLabels == InitLabels /\ [][Next]_vars

(***************************************************************************)
(* Unknown labels (C24, C25).                                              *)
(***************************************************************************)
\* the ordinal answer of the record is one of Every, First..Fourth
OrdinalKnown(r) ==
  Trim(r.repeatPattern) \in {TxtEvery, TxtFirst, TxtSecond, TxtThird, TxtFourth}

\* the weekday answer of the record, trimmed, is one of Sunday..Saturday
WeekdayKnown(r) ==
  Trim(r.dayOfWeek) \in {TxtSunday, TxtMonday, TxtTuesday, TxtWednesday,
                        TxtThursday, TxtFriday, TxtSaturday}

\* C24: a recurring record whose ordinal label is none of Every, First,
\* Second, Third, Fourth (unknown or empty) fails validation: its approval
\* makes no collaborator call and no series exists for it in either slot.
UnknownOrdinalNeverSynced ==
  \A row \in DOMAIN sheet2 :
    ~OrdinalKnown(sheet2[row]) =>
      /\ sheet2[row].buildingId = Blank
      /\ sheet2[row].websiteId = Blank
      /\ \A x \in calendar : ~(x.sheet = FR2 /\ x.row = row)
      /\ (last.e.sheet = FR2 /\ last.e.row = row) => last.calls = <<>>

\* C25: a recurring record whose weekday answer, trimmed, is none of
\* Sunday..Saturday is inert: its approval makes no collaborator call and
\* writes no identifier, no series exists for it, and the instance
\* expansion has no row for it.
UnknownWeekdayIsInert ==
  \A row \in DOMAIN sheet2 :
    ~WeekdayKnown(sheet2[row]) =>
      /\ sheet2[row].buildingId = Blank
      /\ sheet2[row].websiteId = Blank
      /\ \A x \in calendar : ~(x.sheet = FR2 /\ x.row = row)
      /\ (last.e.sheet = FR2 /\ last.e.row = row) =>
           /\ last.calls = <<>>
           /\ last.notFound = {}
           /\ \A w \in last.writes : w[3] \notin {"buildingId", "websiteId"}
      /\ \A i \in 1..Len(instances) : instances[i].eventName /= sheet2[row].eventName

\* C25 witness: a record with a weekday in lower case has been approved,
\* its approver recorded, and the instance list rebuilt since.
UnknownWeekdayApprovedAndExpanded ==
  \E row \in DOMAIN sheet2 :
    /\ ~WeekdayKnown(sheet2[row])
    /\ sheet2[row].dayOfWeek = TxtTuesdayLower
    /\ sheet2[row].approval = "Approved"
    /\ sheet2[row].approver = ApproverEmail
    /\ last.rebuilt

(***************************************************************************)
(* Instance expansion (C27).  What the rebuilt list must hold is computed  *)
(* from the record with the reference calendar of the occurrence           *)
(* properties.                                                             *)
(***************************************************************************)
\* index (0 = Sunday) of the record's weekday answer
WeekdayIndexOf(r) == (CHOOSE i \in 1..7 : WeekdayNames[i] = Trim(r.dayOfWeek)) - 1

\* position 1..4 of the record's ordinal answer, 0 for "Every"
OrdinalOf(r) ==
  IF Trim(r.repeatPattern) = TxtEvery THEN 0
  ELSE CHOOSE i \in 1..4 : OrdinalNames[i] = Trim(r.repeatPattern)

\* <<month, day>> of the occurrences the record has in the year, skipped
\* months left out
OccurrencesOf(r, year) ==
  LET skipSet == MonthsNamed(r.skipMonths)
      onWeekday(m0) == RefDaysOnWeekday(year, m0, WeekdayIndexOf(r))
  IN {md \in (0..11) \X (1..31) :
        /\ md[1] \notin skipSet
        /\ md[2] \in onWeekday(md[1])
        /\ OrdinalOf(r) /= 0 =>
             Cardinality({d \in onWeekday(md[1]) : d <= md[2]}) = OrdinalOf(r)}

\* C27: the rebuilt instance list has rows only for Approved records; for
\* such a record it has exactly one row per occurrence date of each month
\* 0..11 outside the record's skip set and none in a skipped month, with
\* the record's start and end time of day; with an ordinal First..Fourth
\* that is 12 - |SkipSet| rows, and for "Second Tuesday", skip "3, 7",
\* year 2026 exactly 10 rows, each on the second Tuesday of its month.
ExpansionListsOccurrencesOfApproved ==
  last.rebuilt =>
    \A row \in DOMAIN sheet2 :
      LET r == sheet2[row]
          dates == OccurrencesOf(r, ConfiguredYear)
          n == Len(instances)
      IN /\ r.approval /= "Approved" => instances = <<>>
         /\ (r.approval = "Approved" /\ WeekdayKnown(r) /\ OrdinalKnown(r)) =>
              /\ {<<instances[i].start.m, instances[i].start.d>> : i \in 1..n} = dates
              /\ n = Cardinality(dates)
              /\ \A i \in 1..n :
                   /\ instances[i].eventName = r.eventName
                   /\ instances[i].start.y = ConfiguredYear
                   /\ instances[i].start.m \notin MonthsNamed(r.skipMonths)
                   /\ instances[i].start.min = r.startTime
                   /\ instances[i].end = [instances[i].start EXCEPT !.min = r.endTime]
              /\ OrdinalOf(r) /= 0 => n = 12 - Cardinality(MonthsNamed(r.skipMonths))
              /\ (/\ OrdinalOf(r) = 2
                  /\ WeekdayIndexOf(r) = 2
                  /\ r.skipMonths = TxtSkip37
                  /\ ConfiguredYear = 2026) =>
                   /\ n = 10
                   /\ \A i \in 1..n :
                        /\ instances[i].start.m \notin {2, 6}
                        /\ instances[i].start.d \in 8..14
                        /\ RefWeekday(2026, instances[i].start.m, instances[i].start.d) = 2
                        /\ instances[i].start.min = 18 * 60
                        /\ instances[i].end.min = 20 * 60

\* C27 witness: the approved "Second Tuesday" record with skip text "3, 7"
\* has been expanded for 2026 into ten rows, the first on 13 January.
TenRowsForSecondTuesday ==
  /\ last.rebuilt
  /\ \E row \in DOMAIN sheet2 :
       /\ sheet2[row].approval = "Approved"
       /\ sheet2[row].repeatPattern = TxtSecond
       /\ sheet2[row].dayOfWeek = TxtTuesday
       /\ sheet2[row].skipMonths = TxtSkip37
  /\ config.year = 2026
  /\ Len(instances) = 10
  /\ instances[1].start = [y |-> 2026, m |-> 0, d |-> 13, min |-> 18 * 60]

(***************************************************************************)
(* Records with each setup/teardown answer: the four of the form, none,    *)
(* and one the script does not know; one record starts half an hour after  *)
(* midnight, so that its padded start lies on the day before.              *)
(***************************************************************************)
TxtWhenever == <<"W","h","e","n","e","v","e","r">>

PaddingAnswers == {TxtNone, <<>>, Txt30Min, Txt1Hour, Txt2Hours, TxtWhenever}

PaddingOneShotForms ==
  { [eventName |-> "Concert", date |-> JanFifteenth, startTime |-> SixPm,
     endTime |-> EightPm, buildingParts |-> TxtHall,
     targetAudience |-> TxtGeneralPublic, setupTeardown |-> answer] :
      answer \in PaddingAnswers }
  \cup
  { [eventName |-> "Vigil", date |-> JanFifteenth, startTime |-> 30, endTime |-> 90,
     buildingParts |-> TxtHall, targetAudience |-> TxtMembersAndFriends,
     setupTeardown |-> Txt2Hours] }

PaddingRecurringForms ==
  { [eventName |-> "Rehearsal", repeatPattern |-> TxtFirst, dayOfWeek |-> TxtMonday,
     startTime |-> SixPm, endTime |-> EightPm, targetAudience |-> TxtGeneralPublic,
     buildingParts |-> TxtHall, setupTeardown |-> answer] :
      answer \in {TxtNone, Txt1Hour, Txt2Hours} }

InitPadding ==
  /\ config \in {c \in Configs : c.building /= ""}
  /\ \/ /\ \E form \in PaddingOneShotForms :
             sheet1 = [r \in DataRows |-> NewOneShotRow(form)]
        /\ sheet2 = NoRows
     \/ /\ sheet1 = NoRows
        /\ \E form \in PaddingRecurringForms :
             sheet2 = [r \in DataRows |-> NewRecurringRow(form, <<>>)]
  /\ calendar = {}
  /\ instances = <<>>
  /\ last = Idle
  /\ execs = <<>>
  /\ probe = NoProbe

SpecPadding == InitPadding /\ [][NextEdits]_vars

(***************************************************************************)
(* Padding (C29).  Instants are compared by the minutes they lie after a   *)
(* fixed origin, counted with the reference calendar.                      *)
(***************************************************************************)
RECURSIVE RefDaysBeforeMonth(_, _)
RefDaysBeforeMonth(y, m0) ==
  IF m0 = 0 THEN 0 ELSE RefDaysBeforeMonth(y, m0 - 1) + RefMonthLength(y, m0 - 1)

RefDayNumber(y, m0, d) ==
  365 * y + ((y - 1) \div 4) - ((y - 1) \div 100) + ((y - 1) \div 400)
    + RefDaysBeforeMonth(y, m0) + d

AbsMinutes(instant) ==
  RefDayNumber(instant.y, instant.m, instant.d) * (24 * 60) + instant.min

\* the padding the record's answer stands for
PaddingAnswered(r) ==
  CASE r.setupTeardown = Txt30Min -> 30
    [] r.setupTeardown = Txt1Hour -> 60
    [] r.setupTeardown = Txt2Hours -> 120
    [] OTHER -> 0

\* the date the record's entries start on: its date, or for a recurring
\* record its first occurrence in the configured year, which lies in
\* January: the first day on the weekday, or the n-th for an ordinal n
BaseDateOf(key) ==
  IF key[1] = FR1
    THEN RecordAt(key).date
    ELSE LET onWeekday == RefDaysOnWeekday(ConfiguredYear, 0, WeekdayIndexOf(RecordAt(key)))
             nth == IF OrdinalOf(RecordAt(key)) = 0 THEN 1 ELSE OrdinalOf(RecordAt(key))
         IN [y |-> ConfiguredYear, m |-> 0,
             d |-> CHOOSE d \in onWeekday :
                     Cardinality({other \in onWeekday : other <= d}) = nth]

BaseStartOf(key) ==
  AbsMinutes([y |-> BaseDateOf(key).y, m |-> BaseDateOf(key).m, d |-> BaseDateOf(key).d,
              min |-> RecordAt(key).startTime])

BaseEndOf(key) ==
  AbsMinutes([y |-> BaseDateOf(key).y, m |-> BaseDateOf(key).m, d |-> BaseDateOf(key).d,
              min |-> RecordAt(key).endTime])

\* C29: padding is 0, 30, 60 or 120 minutes (0 for "None" and for answers
\* the script does not know); the facility entry starts padding before the
\* base start and ends padding after the base end, the public/member entry
\* has the base start and end, so the facility interval contains the
\* public one.
FacilityIntervalPaddedAroundPublic ==
  /\ \A key \in RecordKeys :
       /\ getPaddingMinutes_(RecordAt(key).setupTeardown) \in {0, 30, 60, 120}
       /\ getPaddingMinutes_(RecordAt(key).setupTeardown) = PaddingAnswered(RecordAt(key))
  /\ \A x \in calendar :
       LET key == <<x.sheet, x.row>>
           padding == PaddingAnswered(RecordAt(key))
       IN /\ x.slot = "building" =>
               /\ AbsMinutes(x.start) = BaseStartOf(key) - padding
               /\ AbsMinutes(x.end) = BaseEndOf(key) + padding
          /\ x.slot = "website" =>
               /\ AbsMinutes(x.start) = BaseStartOf(key)
               /\ AbsMinutes(x.end) = BaseEndOf(key)
  /\ \A x, y \in calendar :
       (x.sheet = y.sheet /\ x.row = y.row /\ x.slot = "building" /\ y.slot = "website") =>
         /\ AbsMinutes(x.start) <= AbsMinutes(y.start)
         /\ AbsMinutes(y.end) <= AbsMinutes(x.end)

\* C29 witness: a record that asks for two hours of setup has both entries,
\* the facility one starting two hours before the public one.
TwoHoursAroundPublicEntry ==
  \E x, y \in calendar :
    /\ x.sheet = y.sheet /\ x.row = y.row
    /\ x.slot = "building" /\ y.slot = "website"
    /\ RecordAt(<<x.sheet, x.row>>).setupTeardown = Txt2Hours
    /\ AbsMinutes(y.start) - AbsMinutes(x.start) = 120
    /\ AbsMinutes(x.end) - AbsMinutes(y.end) = 120

(***************************************************************************)
(* The event-feed variant (src/event-feed/Code.gs): one sheet, one         *)
(* calendar entry per record, created on approval when the promotion       *)
(* answer asks for the website calendar.  Its rows live in sheet1, its     *)
(* Config table (target label, member calendar, public calendar) in        *)
(* config.rows.                                                            *)
(***************************************************************************)
TxtAddToWebsiteKw ==
  <<"a","d","d"," ","t","o"," ","w","e","b","s","i","t","e"," ",
    "c","a","l","e","n","d","a","r">>
TxtAddToWebsite ==
  <<"A","d","d"," ","t","o"," ","W","e","b","s","i","t","e"," ",
    "C","a","l","e","n","d","a","r">>
TxtAddToWebsiteUpper ==
  <<"A","D","D"," ","T","O"," ","W","E","B","S","I","T","E"," ",
    "C","A","L","E","N","D","A","R">>
TxtWeeklyEmail == <<"W","e","e","k","l","y"," ","E","m","a","i","l">>
TxtAddToWebsiteOnly == <<"A","d","d"," ","t","o"," ","W","e","b","s","i","t","e">>
TxtMemberKw == <<"m","e","m","b","e","r">>

\* variant: every approved record is sent to the calendar
shouldAddToWebsiteCalendar_Always(promotionValue) == TRUE

\* the normalized promotion answer contains "add to website calendar"
shouldAddToWebsiteCalendar_(promotionValue) ==
  LET text == normalize_(promotionValue)
  IN IF text = <<>> THEN FALSE ELSE Contains(text, TxtAddToWebsiteKw)

\* first pass of getCalendarIdForTarget_ from row i on: the calendar of the
\* first row whose label is the target and that has a calendar, "" if none
RECURSIVE DirectTargetMatch(_, _, _)
DirectTargetMatch(data, i, targetNorm) ==
  IF i > Len(data) THEN ""
  ELSE LET targetLabel == normalize_(data[i].target)
           memberId == data[i].member
           publicId == data[i].public
       IN IF targetLabel = <<>> \/ targetLabel /= targetNorm
               \/ (memberId = "" /\ publicId = "")
            THEN DirectTargetMatch(data, i + 1, targetNorm)
          ELSE IF publicId = "" THEN memberId
          ELSE IF memberId = "" THEN publicId
          ELSE IF Contains(targetNorm, TxtMemberKw) THEN memberId
          ELSE publicId

\* the first non-blank value of the column in the table, "" if none
FirstSeen(data, column) ==
  IF \E i \in 1..Len(data) : data[i][column] /= ""
    THEN data[CHOOSE i \in 1..Len(data) :
                /\ data[i][column] /= ""
                /\ \A j \in 1..(i - 1) : data[j][column] = ""][column]
    ELSE ""

\* calendar for the target audience: the row of the Config table with that
\* label, else by the keywords "member" / "public", else public, else
\* member; "" stands for null
getCalendarIdForTarget_(targetRaw, data) ==
  LET targetNorm == normalize_(targetRaw)
      direct == DirectTargetMatch(data, 1, targetNorm)
      defaultMemberId == FirstSeen(data, "member")
      defaultPublicId == FirstSeen(data, "public")
  IN IF data = <<>> THEN ""
     ELSE IF direct /= "" THEN direct
     ELSE IF Contains(targetNorm, TxtMemberKw) /\ defaultMemberId /= "" THEN defaultMemberId
     ELSE IF Contains(targetNorm, TxtPublicKw) /\ defaultPublicId /= "" THEN defaultPublicId
     ELSE IF defaultPublicId /= "" THEN defaultPublicId
     ELSE defaultMemberId

\* onApprovalEdit of the event feed; outcome is what the calendar
\* collaborator does if it is reached
EventFeedOnApprovalEdit(ctx, e, outcome) ==
  IF e.sheet /= FR1 \/ e.row < FIRST_DATA_ROW \/ e.col /= APPROVAL_COL THEN ctx
  ELSE IF e.value /= "Approved" \/ e.oldValue = "Approved" THEN ctx
  ELSE
    LET rv == ctx.s1[e.row]
        withApprover == IF e.user /= ""
                          THEN SetValue(ctx, FR1, e.row, "approver", e.user)
                          ELSE ctx
        startDateTime == combineDateAndTime(rv.date, rv.startTime)
        endDateTime == combineDateAndTime(rv.date, rv.endTime)
        calendarId == getCalendarIdForTarget_(rv.targetAudience, ctx.cfg.rows)
    IN IF rv.eventId /= Blank THEN withApprover
       ELSE IF ~shouldAddToWebsiteCalendar_(rv.promotion) THEN withApprover
       ELSE IF rv.eventName = "" \/ startDateTime = NoInstant \/ endDateTime = NoInstant
         THEN withApprover
       ELSE IF calendarId = "" THEN withApprover
       ELSE IF outcome = "nocal" THEN CalendarNotFound(withApprover, "website")
       ELSE IF outcome = "throw"
         THEN [FailedCall(withApprover, calendarId, "website") EXCEPT !.threw = TRUE]
       ELSE SetValue(
              CreateEntry(withApprover, calendarId, FR1, e.row, "website",
                          startDateTime, endDateTime, FALSE),
              FR1, e.row, "eventId", NextEntryId(withApprover.cal))

\* onFormSubmit of the event feed
EventFeedOnFormSubmit(ctx, sheetName, row) ==
  IF sheetName /= FR1 \/ row <= 1 THEN ctx
  ELSE
    LET pending == IF ctx.s1[row].approval = ""
                     THEN SetValue(ctx, FR1, row, "approval", "Pending")
                     ELSE ctx
        noApprover == ClearIfSet(pending, FR1, row, "approver", "")
    IN ClearIfSet(noApprover, FR1, row, "eventId", Blank)

PromotionAnswers ==
  { TxtAddToWebsite, TxtAddToWebsiteUpper, TxtWeeklyEmail \o <<",", " ">> \o TxtAddToWebsite,
    TxtWeeklyEmail, TxtAddToWebsiteOnly, <<>> }

EventFeedForms ==
  { [eventName |-> "Concert", date |-> JanFifteenth, startTime |-> SixPm,
     endTime |-> EightPm, targetAudience |-> audience, promotion |-> promotion] :
      audience \in {TxtGeneralPublic, TxtMembers}, promotion \in PromotionAnswers }
  \cup
  { [eventName |-> "", date |-> JanFifteenth, startTime |-> SixPm, endTime |-> EightPm,
     targetAudience |-> TxtGeneralPublic, promotion |-> TxtAddToWebsite] }

\* the Config table: a row per target label, or no data row at all
EventFeedConfigs ==
  { [rows |-> << [target |-> TxtGeneralPublic, member |-> "", public |-> PublicCal],
                 [target |-> TxtMembers, member |-> MemberCal, public |-> ""] >>],
    [rows |-> <<>>] }

InitFeed ==
  /\ config \in EventFeedConfigs
  /\ \E form \in EventFeedForms :
       sheet1 = [r \in DataRows |->
                   form @@ [approval |-> "Pending", approver |-> "", eventId |-> Blank]]
  /\ sheet2 = NoRows
  /\ calendar = {}
  /\ instances = <<>>
  /\ last = Idle
  /\ execs = <<>>
  /\ probe = NoProbe

CommitFeed(ctx, handler, e) ==
  /\ Cardinality(ctx.cal) <= MaxEntries
  /\ sheet1' = ctx.s1
  /\ calendar' = ctx.cal
  /\ last' = [handler |-> handler, e |-> [e EXCEPT !.user = ""],
              calls |-> ctx.calls, writes |-> ctx.writes, notFound |-> ctx.notFound,
              threw |-> ctx.threw, rebuilt |-> ctx.rebuilt]
  /\ UNCHANGED <<sheet2, config, instances, execs, probe>>

\* the form (re-)writes its answers into the row, then the trigger runs
FeedFormSubmit(row) ==
  /\ row \in DOMAIN sheet1
  /\ CommitFeed(EventFeedOnFormSubmit(Context(sheet1, sheet2, config, calendar, instances),
                                      FR1, row),
                "onFormSubmit", [NoEvent EXCEPT !.sheet = FR1, !.row = row])

\* someone edits a cell of the row: the approval cell, which takes the new
\* value, or the event-name cell of column 5; then the edit trigger runs
FeedEdit(row, col, newValue, user, outcome) ==
  /\ row \in DOMAIN sheet1
  /\ LET e == [sheet |-> FR1, row |-> row, col |-> col,
               value |-> newValue, oldValue |-> sheet1[row].approval, user |-> user]
         ctx == Context(IF col = APPROVAL_COL
                          THEN [sheet1 EXCEPT ![row].approval = newValue]
                          ELSE sheet1,
                        sheet2, config, calendar, instances)
     IN CommitFeed(EventFeedOnApprovalEdit(ctx, e, outcome), "onApprovalEdit", e)

NextFeed ==
  \/ \E row \in DataRows : FeedFormSubmit(row)
  \/ \E row \in DataRows : \E col \in {APPROVAL_COL, 5} :
       \E newValue \in ApprovalValues : \E user \in UserEmails :
         \E outcome \in OneShotOutcomes :
           FeedEdit(row, col, newValue, user, outcome)

SpecFeed == InitFeed /\ [][NextFeed]_vars

(***************************************************************************)
(* Event feed (C28).                                                       *)
(***************************************************************************)
\* the promotion answer contains "Add to Website Calendar" in any case
WebsiteCalendarSelected(r) == Contains(ToLowerCase(r.promotion), TxtAddToWebsiteKw)

\* C28: in the event feed, approving a record creates a calendar event
\* only if its promotion answer contains "Add to Website Calendar"
\* (whatever the case); otherwise no collaborator call is made, the event
\* identifier stays empty, and the approver is recorded all the same.
PromotionGatesFeedEvent ==
  /\ \A x \in calendar : WebsiteCalendarSelected(sheet1[x.row])
  /\ \A row \in DOMAIN sheet1 :
       ~WebsiteCalendarSelected(sheet1[row]) => sheet1[row].eventId = Blank
  /\ (LastOnApprovalEdge /\ ~WebsiteCalendarSelected(LastRecord)) =>
       /\ last.calls = <<>>
       /\ last.notFound = {}
       /\ ~last.threw
       /\ last.writes \subseteq {<<FR1, last.e.row, "approver">>}
       /\ last.writes /= {} => LastRecord.approver = ApproverEmail

\* C28 witness: a record promoted by e-mail only has been approved by an
\* editor whose address is known: approver recorded, no event.
UnpromotedRecordApproved ==
  /\ LastOnApprovalEdge
  /\ LastRecord.promotion = TxtWeeklyEmail
  /\ LastRecord.approval = "Approved"
  /\ LastRecord.approver = ApproverEmail
  /\ last.writes = {<<FR1, last.e.row, "approver">>}
  /\ LastRecord.eventId = Blank
  /\ calendar = {}

(***************************************************************************)
(* The first occurrence of the year, computed on its own: probe holds a    *)
(* year, a weekday index and an ordinal (Null for "Every"), then the date  *)
(* computeFirstOccurrenceDateForYear_ returned and the twelve results of   *)
(* computeMonthlyOccurrenceDates_ its scan looks at.                       *)
(***************************************************************************)
InitFirst ==
  /\ config \in Configs
  /\ sheet1 = NoRows
  /\ sheet2 = NoRows
  /\ calendar = {}
  /\ instances = <<>>
  /\ last = Idle
  /\ execs = <<>>
  /\ \E year \in ProbedYears, jsWeekdayIndex \in 0..6, bysetposOrNull \in {Null} \cup (1..4) :
       probe = [fn |-> "first",
                in |-> [year |-> year, weekday |-> jsWeekdayIndex,
                        bysetpos |-> bysetposOrNull],
                done |-> FALSE, out |-> NoDate, months |-> <<>>]

ApplyFirst ==
  /\ probe.fn = "first"
  /\ ~probe.done
  /\ probe' = [probe EXCEPT
                 !.done = TRUE,
                 !.out = computeFirstOccurrenceDateForYear_(probe.in.year, probe.in.weekday,
                                                            probe.in.bysetpos),
                 !.months = [i \in 1..12 |->
                               computeMonthlyOccurrenceDates_(probe.in.year, i - 1,
                                                              probe.in.weekday,
                                                              probe.in.bysetpos)]]
  /\ UNCHANGED <<sheet1, sheet2, config, calendar, instances, last, execs>>

SpecFirst == InitFirst /\ [][ApplyFirst]_vars

(***************************************************************************)
(* First occurrence and the two branches (C31, C37, C38).                  *)
(***************************************************************************)
FirstApplied == probe.fn = "first" /\ probe.done

\* <<month, day>> of every day of the year that falls on the weekday and,
\* with an ordinal n, is the n-th such day of its month
RefOccurrencesInYear(year, weekday, bysetpos) ==
  {md \in (0..11) \X (1..31) :
     /\ md[2] \in RefDaysOnWeekday(year, md[1], weekday)
     /\ bysetpos /= Null =>
          Cardinality({d \in RefDaysOnWeekday(year, md[1], weekday) : d <= md[2]})
            = bysetpos}

\* C31: the first occurrence of the year is the first element of the first
\* non-empty monthly result, months taken in the order 0..11, that is the
\* earliest occurrence date of the year; none is returned only when all
\* twelve monthly results are empty.
FirstOccurrenceIsEarliestOfYear ==
  FirstApplied =>
    LET in == probe.in
        out == probe.out
        months == probe.months
        nonEmpty == {i \in 1..12 : months[i] /= <<>>}
        dates == RefOccurrencesInYear(in.year, in.weekday, in.bysetpos)
    IN /\ out = NoDate <=> nonEmpty = {}
       /\ nonEmpty /= {} =>
            LET first == CHOOSE i \in nonEmpty : \A j \in nonEmpty : i <= j
            IN out = months[first][1]
       /\ out /= NoDate =>
            /\ out.y = in.year
            /\ <<out.m, out.d>> \in dates
            /\ \A md \in dates : out.m < md[1] \/ (out.m = md[1] /\ out.d <= md[2])

\* C31 witness: for "Every" the scan has returned the first of the five
\* dates January holds, the others coming later.
FirstOfFiveInJanuary ==
  /\ FirstApplied
  /\ probe.in.bysetpos = Null
  /\ Len(probe.months[1]) = 5
  /\ probe.out = probe.months[1][1]
  /\ probe.out /= probe.months[1][5]

\* C37: for every year, weekday index 0..6 and ordinal in {none, 1..4}
\* every month has an occurrence, one for an ordinal lying on a day up to
\* the 28th; so the first occurrence of the year is never none and lies in
\* January of that year.
EveryMonthOccursFirstInJanuary ==
  FirstApplied =>
    /\ \A i \in 1..12 :
         /\ probe.months[i] /= <<>>
         /\ probe.in.bysetpos /= Null =>
              /\ Len(probe.months[i]) = 1
              /\ probe.months[i][1].d <= 28
    /\ probe.out /= NoDate
    /\ probe.out.m = 0
    /\ probe.out.y = probe.in.year

\* C37 witness: a fourth occurrence on 28 February of a year that is not a
\* leap year lies in the twelve results, and the year starts in January.
FourthOnLastDayOfFebruary ==
  /\ FirstApplied
  /\ probe.in.bysetpos = 4
  /\ ~RefLeap(probe.in.year)
  /\ probe.months[2] = <<[y |-> probe.in.year, m |-> 1, d |-> 28]>>
  /\ probe.out.m = 0

\* C38: the two branches agree: for an ordinal n in 1..4 the result is the
\* singleton of the n-th element of the "Every" result for the same year,
\* month and weekday.
NthIsNthOfEvery ==
  (DatesApplied /\ probe.in.bysetpos \in 1..4) =>
    /\ Len(probe.every) >= probe.in.bysetpos
    /\ probe.out = <<probe.every[probe.in.bysetpos]>>

\* C38 witness: a third occurrence has been returned, the third of five
\* the month has.
ThirdOfFive ==
  /\ DatesApplied
  /\ probe.in.bysetpos = 3
  /\ Len(probe.every) = 5
  /\ probe.out = <<probe.every[3]>>

(***************************************************************************)
(* Two recurring records side by side (rows 2 and 3 of Form Responses 2).  *)
(* Both are private and use no space, so no series is created and the      *)
(* runs differ only in approvals and skip months.  The Sunday record has   *)
(* dates before and after every date of the Tuesday record.                *)
(***************************************************************************)
PairForms ==
  << [eventName |-> "Sangha", repeatPattern |-> TxtEvery, dayOfWeek |-> TxtSunday,
      startTime |-> SixPm, endTime |-> EightPm, targetAudience |-> TxtPrivateEvent,
      buildingParts |-> <<>>, setupTeardown |-> TxtNone],
     [eventName |-> "Quilting", repeatPattern |-> TxtSecond, dayOfWeek |-> TxtTuesday,
      startTime |-> SixPm, endTime |-> EightPm, targetAudience |-> TxtPrivateEvent,
      buildingParts |-> <<>>, setupTeardown |-> TxtNone] >>

PairRows == {FIRST_DATA_ROW, FIRST_DATA_ROW + 1}

InitPair ==
  /\ config \in Configs
  /\ sheet1 = NoRows
  /\ \E first \in {1, 2} : \E skipA, skipB \in SkipTexts :
       sheet2 = [r \in PairRows |->
                   IF r = FIRST_DATA_ROW
                     THEN NewRecurringRow(PairForms[first], skipA)
                     ELSE NewRecurringRow(PairForms[3 - first], skipB)]
  /\ calendar = {}
  /\ instances = <<>>
  /\ last = Idle
  /\ execs = <<>>
  /\ probe = NoProbe

NextPair ==
  \/ \E row \in PairRows : FormSubmit(FR2, row)
  \/ \E row \in PairRows : \E newValue \in ApprovalValues : \E user \in UserEmails :
       ApprovalEdit(FR2, row, newValue, user)
  \/ \E row \in PairRows : \E skipText \in SkipTexts : SkipMonthsEdit(row, skipText)

SpecPair == InitPair /\ [][NextPair]_vars

\* the source row an instance row was expanded from
SourceRowOf(inst) == CHOOSE r \in DOMAIN sheet2 : sheet2[r].eventName = inst.eventName

\* a comes before b: an earlier source row, or the same source row and an
\* earlier month, or the same month and an earlier day
ListedBefore(a, b) ==
  \/ SourceRowOf(a) < SourceRowOf(b)
  \/ /\ SourceRowOf(a) = SourceRowOf(b)
     /\ \/ a.start.m < b.start.m
        \/ a.start.m = b.start.m /\ a.start.d < b.start.d

\* C32: the instance list is ordered by source row, then by month, then by
\* day within the month; each row of the list comes strictly before its
\* successor in that order, so the rows of two records are never interleaved
InstanceListOrderedByRecordThenDate ==
  \A i \in 1..(Len(instances) - 1) : ListedBefore(instances[i], instances[i + 1])

\* both records are expanded, and the list is not in date order: the second
\* record's first date is earlier than the first record's last date
TwoRecordsListedOneAfterTheOther ==
  /\ last.rebuilt
  /\ \E i \in 1..(Len(instances) - 1) :
       /\ SourceRowOf(instances[i]) = FIRST_DATA_ROW
       /\ SourceRowOf(instances[i + 1]) = FIRST_DATA_ROW + 1
       /\ instances[i + 1].start.m < instances[i].start.m
  /\ \E i \in 1..(Len(instances) - 1) :
       /\ instances[i].eventName = instances[i + 1].eventName
       /\ instances[i].start.m = instances[i + 1].start.m

(***************************************************************************)
(* The rebuild step by step.  rebuildRecurringInstances_ is the last thing *)
(* a handler does; it clears the output sheet, reads the source rows, and  *)
(* writes the expanded rows with one setValues at the end.  No lock is     *)
(* held, so a reader of the sheet can run between the steps, and a         *)
(* spreadsheet service error or the execution time limit can end the       *)
(* rebuild between them.  probe holds the rebuild's position, the rows it  *)
(* has read, the list as it was before the rebuild began and what the      *)
(* reader saw.                                                             *)
(***************************************************************************)
NoRebuild ==
  [fn |-> "rebuild", pc |-> "idle", values |-> NoRows, previous |-> <<>>,
   read |-> FALSE, seen |-> <<>>, seenPrevious |-> <<>>, seenNew |-> <<>>]

InitSteps ==
  /\ config \in Configs
  /\ sheet1 = NoRows
  /\ \E form \in RecurringForms : \E skipText \in SkipTexts :
       sheet2 = [r \in DataRows |-> NewRecurringRow(form, skipText)]
  /\ calendar = {}
  /\ instances = <<>>
  /\ last = Idle
  /\ execs = <<>>
  /\ probe = NoRebuild

\* the handler up to its call of rebuildRecurringInstances_: the effects on
\* the sheets and calendars become the state, the instance list is as it was
CommitBeforeRebuild(ctx, handler, e) ==
  /\ WithinBounds(ctx)
  /\ sheet1' = ctx.s1
  /\ sheet2' = ctx.s2
  /\ config' = ctx.cfg
  /\ calendar' = ctx.cal
  /\ UNCHANGED <<instances, execs>>
  /\ last' = [handler |-> handler, e |-> [e EXCEPT !.user = ""],
              calls |-> ctx.calls, writes |-> ctx.writes, notFound |-> ctx.notFound,
              threw |-> ctx.threw, rebuilt |-> ctx.rebuilt]
  /\ probe' = IF ctx.rebuilt
                THEN [probe EXCEPT !.pc = "clear", !.previous = instances]
                ELSE probe

StepApprovalEdit(row, newValue, user) ==
  /\ probe.pc = "idle"
  /\ row \in DOMAIN sheet2
  /\ LET e == [sheet |-> FR2, row |-> row, col |-> APPROVAL_COL,
               value |-> newValue, oldValue |-> sheet2[row].approval, user |-> user]
         ctx == Context(sheet1, [sheet2 EXCEPT ![row].approval = newValue],
                        config, calendar, instances)
     IN \E ob, ow \in Outcomes(FR2, e) :
          CommitBeforeRebuild(onApprovalEdit(ctx, e, ob, ow), "onApprovalEdit", e)

StepSkipMonthsEdit(row, skipText) ==
  /\ probe.pc = "idle"
  /\ row \in DOMAIN sheet2
  /\ LET e == [sheet |-> FR2, row |-> row, col |-> SKIP_MONTHS_COL,
               value |-> "", oldValue |-> "", user |-> ApproverEmail]
         ctx == Context(sheet1, [sheet2 EXCEPT ![row].skipMonths = skipText],
                        config, calendar, instances)
     IN CommitBeforeRebuild(onApprovalEdit(ctx, e, "ok", "ok"), "onApprovalEdit", e)

\* outSheet.clearContents() and the header row
ClearContents ==
  /\ probe.pc = "clear"
  /\ instances' = <<>>
  /\ probe' = [probe EXCEPT !.pc = "read"]
  /\ UNCHANGED <<sheet1, sheet2, config, calendar, last, execs>>

\* sourceSheet.getRange(...).getValues()
GetValues ==
  /\ probe.pc = "read"
  /\ probe' = [probe EXCEPT !.pc = "write", !.values = sheet2]
  /\ UNCHANGED <<sheet1, sheet2, config, calendar, instances, last, execs>>

\* the loop over the rows read and the setValues that ends the rebuild
SetValues ==
  /\ probe.pc = "write"
  /\ instances' = rebuildRecurringInstances_(probe.values, config)
  /\ probe' = [probe EXCEPT !.pc = "idle", !.values = NoRows, !.previous = instances']
  /\ UNCHANGED <<sheet1, sheet2, config, calendar, last, execs>>

\* a service error or the time limit ends the invocation after the sheet
\* was cleared
RebuildFails ==
  /\ probe.pc \in {"read", "write"}
  /\ probe' = [probe EXCEPT !.pc = "idle", !.values = NoRows]
  /\ UNCHANGED <<sheet1, sheet2, config, calendar, instances, last, execs>>

\* a reader of the "Recurring Instances" sheet; with what it saw it notes
\* the list before the latest rebuild began and the expansion of the
\* records as they are
ReadInstanceList ==
  /\ probe' = [probe EXCEPT !.read = TRUE, !.seen = instances,
                            !.seenPrevious = probe.previous,
                            !.seenNew = rebuildRecurringInstances_(sheet2, config)]
  /\ UNCHANGED <<sheet1, sheet2, config, calendar, instances, last, execs>>

NextSteps ==
  \/ \E row \in DataRows : \E newValue \in ApprovalValues : \E user \in UserEmails :
       StepApprovalEdit(row, newValue, user)
  \/ \E row \in DataRows : \E skipText \in SkipTexts : StepSkipMonthsEdit(row, skipText)
  \/ ClearContents
  \/ GetValues
  \/ SetValues
  \/ RebuildFails
  \/ ReadInstanceList

SpecSteps == InitSteps /\ [][NextSteps]_vars

\* C33: a reader of the instance list sees the complete list of before the
\* rebuild or the complete list the rebuild produces, never anything else
\* (such as an empty list while an approved record has occurrences)
ReaderSeesPreviousOrNewList ==
  probe.read => probe.seen = probe.seenPrevious \/ probe.seen = probe.seenNew

(***************************************************************************)
(* Configurations with a value missing: one of Config!B2:D2 blank, or the  *)
(* Config sheet missing altogether (every identifier null, the year taken  *)
(* from the clock).  The records ask for a space and name the members, the *)
(* general public, the staff (an audience the router does not know) or a   *)
(* private event.                                                          *)
(***************************************************************************)
ConfigsWithAbsence ==
  { [member |-> MemberCal, public |-> PublicCal, building |-> BuildingCal, year |-> 2026],
    [member |-> MemberCal, public |-> PublicCal, building |-> "", year |-> 2026],
    [member |-> "", public |-> PublicCal, building |-> BuildingCal, year |-> 2026],
    [member |-> MemberCal, public |-> "", building |-> BuildingCal, year |-> 2026],
    [member |-> "", public |-> "", building |-> "", year |-> 0] }

FormAudiences == {TxtGeneralPublic, TxtMembersAndFriends, TxtStaff, TxtPrivateEvent}

AudienceOneShotForms ==
  { [eventName |-> "Supper", date |-> JanFifteenth, startTime |-> SixPm, endTime |-> EightPm,
     buildingParts |-> TxtHall, targetAudience |-> audience, setupTeardown |-> TxtNone] :
    audience \in FormAudiences }

AudienceRecurringForms ==
  { [eventName |-> "Chalice", repeatPattern |-> TxtFirst, dayOfWeek |-> TxtMonday,
     startTime |-> SixPm, endTime |-> EightPm, targetAudience |-> audience,
     buildingParts |-> TxtHall, setupTeardown |-> TxtNone] :
    audience \in FormAudiences }

InitConfig ==
  /\ config \in ConfigsWithAbsence
  /\ \/ /\ \E form \in AudienceOneShotForms : sheet1 = [r \in DataRows |-> NewOneShotRow(form)]
        /\ sheet2 = NoRows
     \/ /\ sheet1 = NoRows
        /\ \E form \in AudienceRecurringForms :
             sheet2 = [r \in DataRows |-> NewRecurringRow(form, <<>>)]
  /\ calendar = {}
  /\ instances = <<>>
  /\ last = Idle
  /\ execs = <<>>
  /\ probe = NoProbe

SpecConfig == InitConfig /\ [][NextEdits]_vars

\* the slot was open when the latest invocation began: its identifier is
\* still blank, or the invocation filled it
LastOpen(slot) ==
  \/ LastSucceeded(slot)
  \/ IF slot = "building" THEN LastRecord.buildingId = Blank
                          ELSE LastRecord.websiteId = Blank

\* the audience text names the members / the general public
NamesMembers(rec) == Contains(normalize_(rec.targetAudience), TxtMembersKw)
NamesPublic(rec) == Contains(normalize_(rec.targetAudience), TxtPublicKw)

\* C34: a missing configuration value disables the destination it
\* configures and nothing else.  On an approval edge of a complete record:
\* without the building id the building slot is not attempted and the
\* website slot is attempted as usual; without the member (public) id a
\* record for the members (the public) has no website destination and its
\* website slot is not attempted, while the building slot is attempted as
\* usual; and no invocation ends in an exception unless a collaborator call
\* it made raised one.
MissingConfigDisablesOnlyItsDestination ==
  /\ last.threw => LastFailed("building") \/ LastFailed("website")
  /\ (LastOnApprovalEdge /\ SyncReady(<<last.e.sheet, last.e.row>>)) =>
       /\ config.building = "" =>
            /\ ~LastAttempted("building")
            /\ LastRecord.buildingId = Blank
            /\ (WebsiteDestination(LastRecord) /= "" /\ LastOpen("website"))
                 => LastAttempted("website")
       /\ ((config.member = "" /\ NamesMembers(LastRecord) /\ ~IsPrivate(LastRecord))
           \/ (config.public = "" /\ NamesPublic(LastRecord) /\ ~NamesMembers(LastRecord)
                 /\ ~IsPrivate(LastRecord))) =>
            /\ WebsiteDestination(LastRecord) = ""
            /\ ~LastAttempted("website")
            /\ LastRecord.websiteId = Blank
            /\ (config.building /= "" /\ Trim(LastRecord.buildingParts) /= <<>>
                  /\ LastOpen("building"))
                 => LastAttempted("building")

\* C34 witnesses: a record for the members approved without a member
\* calendar got its building entry only; a record for the public approved
\* without a building calendar got its website entry only
MembersRecordWithoutMemberCalendar ==
  /\ LastOnApprovalEdge
  /\ config.member = "" /\ config.building = BuildingCal
  /\ LastRecord.targetAudience = TxtMembersAndFriends
  /\ LastRecord.buildingId /= Blank
  /\ LastRecord.websiteId = Blank
  /\ Len(last.calls) = 1
  /\ ~last.threw

PublicRecordWithoutBuildingCalendar ==
  /\ LastOnApprovalEdge
  /\ config.building = "" /\ config.public = PublicCal
  /\ LastRecord.targetAudience = TxtGeneralPublic
  /\ LastRecord.buildingId = Blank
  /\ LastRecord.websiteId /= Blank
  /\ Len(last.calls) = 1
  /\ ~last.threw

\* the routing breadcrumb is among the notes of the record
NotedAsNotRouted(rec) == \E i \in DOMAIN rec.note : rec.note[i] = NoteNotRouted

\* C35: when an approval edge of a complete record finds no website
\* destination for an audience text that does not name "private", the
\* record is annotated and the remaining steps are taken (for a recurring
\* record the instance list is rebuilt), for one-shot and recurring records
\* alike; a private record is not annotated
UnroutedAudienceIsAnnotated ==
  (LastOnApprovalEdge /\ SyncReady(<<last.e.sheet, last.e.row>>) /\ ~last.threw) =>
    /\ (WebsiteDestination(LastRecord) = "" /\ ~IsPrivate(LastRecord)) =>
         /\ NotedAsNotRouted(LastRecord)
         /\ last.e.sheet = FR2 => last.rebuilt
    /\ IsPrivate(LastRecord) => ~NotedAsNotRouted(LastRecord)

\* C36: once a trigger invocation has completed, the stored instance list
\* is the expansion of the recurring records as they now are (approval,
\* approver, series identifiers, skip months)
InstanceListMatchesRecords ==
  last.handler /= "none" => instances = rebuildRecurringInstances_(sheet2, config)

(***************************************************************************)
(* The approval of two recurring records that differ in the skip-months    *)
(* cell only.  probe holds the form, the two skip texts and the outcomes   *)
(* of the collaborator, then for each record what its approval handed to   *)
(* the collaborator (the calls, the entries asked for, the rule) and the   *)
(* instance list it left.                                                  *)
(***************************************************************************)
TxtSkipJanuary == <<"1">>
TxtSkipWinter == <<"1", ",", " ", "2">>

SeriesSkipTexts == {<<>>, TxtSkipJanuary, TxtSkipWinter, TxtSkip37}

SeriesForms ==
  { f \in RecurringForms : f.eventName = "Choir" } \cup
  { [eventName |-> "Vigil", repeatPattern |-> TxtEvery, dayOfWeek |-> TxtSunday,
     startTime |-> SixPm, endTime |-> EightPm, targetAudience |-> TxtMembersAndFriends,
     buildingParts |-> TxtHall, setupTeardown |-> Txt30Min],
    [eventName |-> "Salon", repeatPattern |-> TxtFourth, dayOfWeek |-> TxtFriday,
     startTime |-> SixPm, endTime |-> EightPm, targetAudience |-> TxtPrivateEvent,
     buildingParts |-> TxtHall, setupTeardown |-> TxtNone] }

NoSeries == [calls |-> <<>>, entries |-> {}, rule |-> <<>>, inst |-> <<>>]

InitSeries ==
  /\ config \in Configs
  /\ sheet1 = NoRows
  /\ sheet2 = NoRows
  /\ calendar = {}
  /\ instances = <<>>
  /\ last = Idle
  /\ execs = <<>>
  /\ \E form \in SeriesForms, skipA, skipB \in SeriesSkipTexts, ob, ow \in SeriesOutcomes :
       probe = [fn |-> "series",
                in |-> [form |-> form, skipA |-> skipA, skipB |-> skipB,
                        ob |-> ob, ow |-> ow],
                done |-> FALSE, outA |-> NoSeries, outB |-> NoSeries]

\* the approval (Pending -> Approved) of the record made of the form and the
\* skip text, alone in Form Responses 2 with empty calendars
SeriesOfApproval(form, skipText, cfg, ob, ow) ==
  LET rec == [NewRecurringRow(form, skipText) EXCEPT !.approval = "Approved"]
      e == [sheet |-> FR2, row |-> FIRST_DATA_ROW, col |-> APPROVAL_COL,
            value |-> "Approved", oldValue |-> "Pending", user |-> ApproverEmail]
      ctx == onApprovalEdit(Context(NoRows, [r \in DataRows |-> rec], cfg, {}, <<>>),
                            e, ob, ow)
  IN [calls |-> ctx.calls,
      entries |-> {[cal |-> x.cal, slot |-> x.slot, start |-> x.start, end |-> x.end] :
                   x \in ctx.cal},
      rule |-> RecurrenceRule(getRecurringYear_(cfg), dayOfWeekToRruleByday_(rec.dayOfWeek),
                              repeatPatternToBysetpos_(rec.repeatPattern)),
      inst |-> ctx.inst]

ApplySeries ==
  /\ probe.fn = "series"
  /\ ~probe.done
  /\ probe' = [probe EXCEPT
                 !.done = TRUE,
                 !.outA = SeriesOfApproval(probe.in.form, probe.in.skipA, config,
                                           probe.in.ob, probe.in.ow),
                 !.outB = SeriesOfApproval(probe.in.form, probe.in.skipB, config,
                                           probe.in.ob, probe.in.ow)]
  /\ UNCHANGED <<sheet1, sheet2, config, calendar, instances, last, execs>>

SpecSeries == InitSeries /\ [][ApplySeries]_vars

SeriesApplied == probe.fn = "series" /\ probe.done

\* the instance list has no row in a month the skip text names
NoRowInSkippedMonth(inst, skipText) ==
  \A i \in DOMAIN inst : inst[i].start.m \notin MonthsNamed(skipText)

\* the day of January the form's first occurrence of the year falls on: the
\* first day on its weekday, or the n-th for an ordinal n
FirstDayInJanuary(form, year) ==
  LET onWeekday == RefDaysOnWeekday(year, 0, WeekdayIndexOf(form))
      nth == IF OrdinalOf(form) = 0 THEN 1 ELSE OrdinalOf(form)
  IN CHOOSE d \in onWeekday : Cardinality({other \in onWeekday : other <= d}) = nth

\* C39: two recurring records that differ in the skip-months text only hand
\* the same calls, destinations, start and end instants and rule to the
\* collaborator when approved; every series starts in January of the
\* recurring year, on the record's first occurrence of the year, also when
\* January is skipped and has no row in the record's instance list
SeriesIndependentOfSkipMonths ==
  SeriesApplied =>
    LET a == probe.outA
        b == probe.outB
        year == getRecurringYear_(config)
    IN /\ a.calls = b.calls
       /\ a.entries = b.entries
       /\ a.rule = b.rule
       /\ \A x \in a.entries :
            /\ x.start.y = year /\ x.start.m = 0
            /\ x.start.d = FirstDayInJanuary(probe.in.form, year)
            /\ <<x.end.y, x.end.m, x.end.d>> = <<x.start.y, x.start.m, x.start.d>>
       /\ NoRowInSkippedMonth(a.inst, probe.in.skipA)
       /\ NoRowInSkippedMonth(b.inst, probe.in.skipB)

\* C39 witness: the same form approved with no month skipped and with
\* January skipped: both series were created, and the second record's list
\* begins in February
SeriesCreatedWithJanuarySkipped ==
  /\ SeriesApplied
  /\ probe.in.skipA = <<>>
  /\ probe.in.skipB = TxtSkipJanuary
  /\ Cardinality(probe.outB.entries) = 2
  /\ probe.outA.inst /= <<>> /\ probe.outA.inst[1].start.m = 0
  /\ probe.outB.inst /= <<>> /\ probe.outB.inst[1].start.m = 1

====
